---- MODULE Spec2Model ----
(***************************************************************************)
(* The upstream bridge of GPTMock: one client request handled by one of    *)
(* the three orchestrators (chat completions, legacy text completions,     *)
(* responses passthrough), the upstream calls it makes, and the consumer   *)
(* of the upstream event stream (stream translation or aggregation).       *)
(***************************************************************************)
EXTENDS Integers, Sequences, FiniteSets, TLC

VARIABLES
    req,        \* the client payload and the server settings the handler reads
    upLines,    \* the most lines the upstream response carries in this run
    pc,         \* position of the handler
    authCalls,  \* number of times the credential step ran
    creds,      \* the handler's access_token and account_id
    had_responses_tools, \* chat.py: extra tools were added to the request
    tools_responses,     \* chat.py: tools of the first attempt
    tool_choice,         \* chat.py: tool_choice of the first attempt
    calls,      \* upstream POSTs attempted, in order
    resps,      \* upstream responses obtained, in order, with their close count
    upstream,   \* index in resps of the handler's variable `upstream` (0: none)
    tr,         \* local state of the stream consumer
    log,        \* the upstream lines read so far
    readFrom,   \* indices of the responses whose lines were read
    exit,       \* how the consumer's loop was left
    frames,     \* frames yielded to the client (streaming replies)
    outcome,    \* what the client receives
    authFile,   \* auth.json, the persisted credential record (NoFile: none)
    fetch,      \* the calls of load_chatgpt_tokens in flight, one per fetcher
    lastWriter, \* the fetcher that wrote auth.json last (0: nobody yet)
    environ     \* os.environ: the three variables that name a home directory

\* the state of one request in its handler
handlerVars == <<req, upLines, pc, authCalls, creds, had_responses_tools, tools_responses,
                 tool_choice, calls, resps, upstream, tr, log, readFrom, exit, frames, outcome>>

\* the state of the credential store and of the fetches running against it
storeVars == <<authFile, fetch, lastWriter, environ>>

\* what a handler leaves alone
sideVars == <<storeVars>>

\* what a fetch leaves alone
notStore == <<handlerVars>>

vars == <<handlerVars, storeVars>>

\* ---------------------------------------------------------------- bounds

\* longest responses_tools list of a request
MaxRTools == 2
\* most upstream lines read from one response, when the request is a plain one
MaxEvents == 3
\* most upstream lines read from one response, over all requests
OrchEvents == 1
\* most messages of a chat request
MaxMessages == 3
\* most upstream lines of a response with tool calls
MaxCallEvents == 3
\* most effort suffixes at the end of a requested model name
MaxSuffixes == 1
\* most requests of one process run whose session identifiers are compared
MaxSessionCalls == 2

\* ------------------------------------------------------------ input sets

\* Python's None, also an absent key
None == "None"

Endpoints == {"chat", "text", "responses"}

\* One responses_tools entry, by its type.  "other" is a string outside the
\* supported two, "nonstring" a type that is no string (a number, null),
\* "junk" an entry that is no dict.
RToolKinds == {"web_search", "web_search_preview", "other", "nonstring", "junk"}

RECURSIVE SeqsUpTo(_, _)
SeqsUpTo(S, n) ==
    IF n = 0 THEN {<<>>}
    ELSE LET shorter == SeqsUpTo(S, n - 1)
         IN shorter \cup {Append(s, x) : s \in {t \in shorter : Len(t) = n - 1}, x \in S}

RToolLists == SeqsUpTo(RToolKinds, MaxRTools)

\* client tools (chat format), zero or one function tool
ClientTools == {<<>>, <<"chat_function">>}

\* payload tool_choice: absent, the two strings upstream takes, another
\* string, a structured object
ToolChoices == {None, "none", "required", "obj"}

\* payload responses_tool_choice
RToolChoices == {None, "auto", "none"}

\* _should_refresh_access_token: the margin before the expiry, and the age
\* of the last refresh, in minutes
RefreshMargin == 5

RefreshAge == 55

\* MAX_TOOLS_BYTES of process_chat_completion
MAX_TOOLS_BYTES == 32768

\* len(json.dumps({"type": "web_search"}))
WebSearchBytes == 22

\* len(json.dumps(entry)) of one tool entry: the plain web_search entry, and
\* entries that put a list of one or of two at the cap and just over it
EntryBytes == {WebSearchBytes, 16382, 16383, 32766, 32767}

\* upstream HTTP statuses
Statuses == {200, 400, 500}

\* error.message of an upstream error body; None: the body has none (or is
\* no JSON)
BodyMsgs == {None, "m1", "m2"}

\* error.message of a response.failed event: absent, empty, a text
FailMsgs == {None, "", "e1"}

\* text chunks of output_text.delta events
Chunks == {"a", "b"}

\* the upstream lines a response can carry
Events ==
    [type : {"response.output_text.delta"}, d : Chunks]
    \cup [type : {"response.failed"}, d : FailMsgs]
    \cup [type : {"response.output_text.done", "response.completed",
                  "[DONE]", "response.unknown"}, d : {None}]

\* ----------------------------------------------------------- helpers

NoOutcome == [kind |-> "none", status |-> 0, message |-> None, code |-> None,
              content |-> <<>>]

ErrorOutcome(status, message, code) ==
    [kind |-> "error", status |-> status, message |-> message, code |-> code,
     content |-> <<>>]

DocOutcome(content) ==
    [kind |-> "doc", status |-> 200, message |-> None, code |-> None,
     content |-> content]

StreamOutcome ==
    [kind |-> "stream", status |-> 200, message |-> None, code |-> None,
     content |-> <<>>]

Frame(t, d) == [t |-> t, d |-> d]

\* the content of a message that has no text: JSON null, written as a text
\* that no sequence of chunks equals (the empty text is <<>>)
NoContent == <<None>>

\* locals of a stream consumer
TrInit == [full_text |-> <<>>, error_message |-> None, sent_stop_chunk |-> FALSE]

\* chatmock.schemas.messages.convert_tools_chat_to_responses: function tools
\* are converted one to one
ConvertTool(t) == IF t = "chat_function" THEN "function" ELSE t

convert_tools_chat_to_responses(ts) == [i \in 1..Len(ts) |-> ConvertTool(ts[i])]

\* _call_upstream's tool_choice on the wire
WireToolChoice(tc) == IF tc \in {"auto", "none", "obj"} THEN tc ELSE "auto"

\* payload.get("tool_choice", "auto")
PayloadToolChoice(r) == IF r.tool_choice = None THEN "auto" ELSE r.tool_choice

\* the entries the loop over responses_tools looks at: dicts with a string type
IsTyped(t) == t \notin {"junk", "nonstring"}

Supported(t) == t \in {"web_search", "web_search_preview"}

\* only the first entry is looked at
HasUnsupported_first(ts) == Len(ts) > 0 /\ IsTyped(ts[1]) /\ ~Supported(ts[1])

\* the loop raises at the first typed entry that is not supported
HasUnsupported(ts) == \E i \in 1..Len(ts) : IsTyped(ts[i]) /\ ~Supported(ts[i])

ExtraTools(ts) == SelectSeq(ts, LAMBDA t : IsTyped(t))

\* `and` in place of `or`
MissingCredentials_both(access_token, account_id) ==
    access_token = None /\ account_id = None

\* `if not access_token or not account_id`
MissingCredentials(access_token, account_id) ==
    access_token = None \/ account_id = None

MissingMsg == "Missing ChatGPT credentials. Run 'python3 chatmock.py login' first."

\* (err_body.get("error", {}) or {}).get("message", "Upstream error")
ErrBodyMessage(body) == IF body = None THEN "Upstream error" ELSE body

\* a generic error in place of upstream's own
UpstreamError_generic(resp) == ErrorOutcome(500, "Upstream error", None)

\* the error raised for an upstream response with status >= 400
UpstreamError(resp) == ErrorOutcome(resp.status, ErrBodyMessage(resp.body), None)

CloseResp(rs, i) == [rs EXCEPT ![i].closes = @ + 1]

\* ------------------------------------------------------------- initial

\* every request: the fields only process_chat_completion reads are left at
\* their defaults for the other two handlers; function_bytes and
\* extension_bytes are the serialized sizes of one converted function tool
\* and of one responses_tools entry, small here
Requests ==
    {r \in [endpoint : Endpoints, stream : BOOLEAN, tools : ClientTools,
            tool_choice : ToolChoices, responses_tools : RToolLists,
            responses_tool_choice : RToolChoices, default_web_search : BOOLEAN,
            function_bytes : {WebSearchBytes}, extension_bytes : {WebSearchBytes},
            model : {"gpt-5"}, gpt5_codex_instructions : {None}] :
        /\ r.endpoint # "chat" =>
              /\ r.responses_tools = <<>>
              /\ r.responses_tool_choice = None
              /\ r.default_web_search = FALSE
              /\ r.tools = <<>>
        /\ r.endpoint = "text" => r.tool_choice = None}

\* the requests without client tools and tool choices, with or without one
\* web_search extension tool
PlainRequests ==
    {r \in Requests :
        /\ r.tools = <<>>
        /\ r.tool_choice = None
        /\ r.responses_tool_choice = None
        /\ r.default_web_search = FALSE
        /\ r.responses_tools \in {<<>>, <<"web_search">>}}

\* the state of a handler when it is called
Start ==
    /\ pc = IF req.endpoint = "chat" THEN "start" ELSE "auth"
    /\ authCalls = 0
    /\ creds = [access_token |-> None, account_id |-> None]
    /\ had_responses_tools = FALSE
    /\ tools_responses = <<>>
    /\ tool_choice = "auto"
    /\ calls = <<>>
    /\ resps = <<>>
    /\ upstream = 0
    /\ tr = TrInit
    /\ log = <<>>
    /\ readFrom = {}
    /\ exit = None
    /\ frames = <<>>
    /\ outcome = NoOutcome

\* no fetch runs while a request is followed through its handler
StoreIdle ==
    /\ authFile = [file |-> "none"]
    /\ fetch = <<>>
    /\ lastWriter = 0
    /\ environ = [GPTMOCK_HOME |-> "None", CHATGPT_LOCAL_HOME |-> "None", CODEX_HOME |-> "None"]

\* every request, short upstream streams
Init ==
    /\ req \in Requests
    /\ upLines = OrchEvents
    /\ Start
    /\ StoreIdle

\* plain requests, longer upstream streams
InitStream ==
    /\ req \in PlainRequests
    /\ upLines = MaxEvents
    /\ Start
    /\ StoreIdle

\* ------------------------------------------- process_chat_completion

UnsupportedMsg == "Only web_search/web_search_preview are supported in responses_tools"

\* the opt-out of the caller is not looked at
ChatExtraTools_always(r) ==
    LET listed == ExtraTools(r.responses_tools)
    IN IF listed = <<>> /\ r.default_web_search THEN <<"web_search">> ELSE listed

\* the extra tools after the loop and the default web search
ChatExtraTools(r) ==
    LET listed == ExtraTools(r.responses_tools)
    IN IF listed = <<>> /\ r.default_web_search /\ r.responses_tool_choice # "none"
       THEN <<"web_search">>
       ELSE listed

\* len(json.dumps(list)) of a list of n entries of the same size: the
\* brackets, the entries, ", " between them
DumpsLen(n, bytes) == IF n = 0 THEN 2 ELSE 2 + n * bytes + 2 * (n - 1)

\* size = len(json.dumps(extra_tools)); the default web search is the
\* plain entry
ExtraToolsBytes(r) ==
    IF ExtraTools(r.responses_tools) = <<>>
    THEN DumpsLen(Len(ChatExtraTools(r)), WebSearchBytes)
    ELSE DumpsLen(Len(ChatExtraTools(r)), r.extension_bytes)

\* `if extra_tools:` ... `if size > MAX_TOOLS_BYTES:`
TooLarge(r) == ChatExtraTools(r) # <<>> /\ ExtraToolsBytes(r) > MAX_TOOLS_BYTES

\* tool_choice of the first attempt: responses_tool_choice overrides it
ChatToolChoice(r) ==
    IF r.responses_tool_choice \in {"auto", "none"}
    THEN r.responses_tool_choice
    ELSE PayloadToolChoice(r)

\* step 7: tools, responses_tools, tool_choice
ChatPrepare ==
    /\ pc = "start"
    /\ req.endpoint = "chat"
    /\ IF HasUnsupported(req.responses_tools)
       THEN /\ outcome' = ErrorOutcome(400, UnsupportedMsg, "RESPONSES_TOOL_UNSUPPORTED")
            /\ pc' = "done"
            /\ UNCHANGED <<had_responses_tools, tools_responses, tool_choice>>
       ELSE IF TooLarge(req)
       THEN /\ outcome' = ErrorOutcome(400, "responses_tools too large", "RESPONSES_TOOLS_TOO_LARGE")
            /\ pc' = "done"
            /\ UNCHANGED <<had_responses_tools, tools_responses, tool_choice>>
       ELSE /\ had_responses_tools' = (ChatExtraTools(req) # <<>>)
            /\ tools_responses' =
                  convert_tools_chat_to_responses(req.tools) \o ChatExtraTools(req)
            /\ tool_choice' = ChatToolChoice(req)
            /\ pc' = "auth"
            /\ UNCHANGED outcome
    /\ UNCHANGED <<req, upLines, authCalls, creds, calls, resps, upstream, tr, log, readFrom, exit, frames>>
    /\ UNCHANGED sideVars

\* what get_effective_chatgpt_auth can return
AccessTokens == {None, "access"}
AccountIds == {None, "account"}

\* step 9 of each handler: the credential step and the check of its result
CredentialStep(endpoint) ==
    /\ pc = "auth"
    /\ req.endpoint = endpoint
    /\ authCalls' = authCalls + 1
    /\ \E access_token \in AccessTokens, account_id \in AccountIds :
          /\ creds' = [access_token |-> access_token, account_id |-> account_id]
          /\ IF MissingCredentials(access_token, account_id)
             THEN /\ outcome' = ErrorOutcome(401, MissingMsg, None)
                  /\ pc' = "done"
             ELSE /\ pc' = "call"
                  /\ UNCHANGED outcome
    /\ UNCHANGED <<req, upLines, had_responses_tools, tools_responses, tool_choice, calls,
                   resps, upstream, tr, log, readFrom, exit, frames>>
    /\ UNCHANGED sideVars

ChatGetAuth == CredentialStep("chat")

\* get_instructions_for_model: the instructions of the codex models when
\* the settings have some, else the base instructions
get_instructions_for_model(model, gpt5_codex_instructions) ==
    IF model \in {"gpt-5-codex", "gpt-5.1-codex", "gpt-5.2-codex"}
       /\ gpt5_codex_instructions # None
    THEN gpt5_codex_instructions
    ELSE "base_instructions"

\* the tool_choice is sent as the handler passed it
Call_unchecked(tools, tc) ==
    [tools |-> tools, tool_choice |-> tc, store |-> FALSE, stream |-> TRUE]

\* responses_payload of _call_upstream: the body of one upstream POST
Call(tools, tc) ==
    [tools |-> tools, tool_choice |-> WireToolChoice(tc), store |-> FALSE, stream |-> TRUE]

Response(status, body) == [status |-> status, body |-> body, closes |-> 0]

\* one POST of the chat handler: the body, the instructions in it, and the
\* credentials in its headers
ChatCall(body, instructions) ==
    [tools |-> body.tools, tool_choice |-> body.tool_choice, store |-> body.store,
     stream |-> body.stream, instructions |-> instructions,
     access_token |-> creds.access_token, account_id |-> creds.account_id]

ResponseSet ==
    {Response(s, b) : s \in Statuses, b \in BodyMsgs} \ {Response(200, "m1"), Response(200, "m2")}

GatewayMsg == "Upstream ChatGPT request failed"

\* the failure is reported as an internal error
GatewayError_internal == ErrorOutcome(500, GatewayMsg, None)

\* `except httpx.RequestError`: ChatCompletionError(..., status_code=502),
\* without error_data
GatewayError == ErrorOutcome(502, GatewayMsg, None)

\* step 11: the first upstream call
ChatCallUpstream ==
    /\ pc = "call"
    /\ req.endpoint = "chat"
    /\ calls' = Append(calls, ChatCall(Call(tools_responses, tool_choice),
                                       get_instructions_for_model(
                                           req.model, req.gpt5_codex_instructions)))
    /\ \/ /\ outcome' = GatewayError
          /\ pc' = "done"
          /\ UNCHANGED <<resps, upstream>>
       \/ /\ \E r \in ResponseSet : resps' = Append(resps, r)
          /\ upstream' = Len(resps) + 1
          /\ pc' = "status"
          /\ UNCHANGED outcome
    /\ UNCHANGED <<req, upLines, authCalls, creds, had_responses_tools, tools_responses, tool_choice,
                   tr, log, readFrom, exit, frames>>
    /\ UNCHANGED sideVars

\* step 12: upstream.status_code >= 400, without the retry
ChatUpstreamStatus ==
    /\ pc = "status"
    /\ req.endpoint = "chat"
    /\ IF resps[upstream].status >= 400
       THEN IF had_responses_tools
            THEN /\ pc' = "retry"
                 /\ UNCHANGED outcome
            ELSE /\ outcome' = UpstreamError(resps[upstream])
                 /\ pc' = "done"
       ELSE /\ pc' = "dispatch"
            /\ UNCHANGED outcome
    /\ UNCHANGED <<req, upLines, authCalls, creds, had_responses_tools, tools_responses, tool_choice,
                   calls, resps, upstream, tr, log, readFrom, exit, frames>>
    /\ UNCHANGED sideVars

\* the retry's tools and tool_choice; its instructions are
\* settings.base_instructions
base_tools_only(r) == convert_tools_chat_to_responses(r.tools)

\* the retry keeps the overridden tool_choice of the first attempt
safe_choice_overridden(r) == ChatToolChoice(r)

safe_choice(r) == PayloadToolChoice(r)

\* the assignment is left out
UpstreamAfterRetry_first(first, second) == first

\* `upstream = upstream2` when the retry succeeded
UpstreamAfterRetry(first, second) == second

\* the error raised when the retry is rejected as well
RetryRejected(first, second) ==
    ErrorOutcome(second.status, ErrBodyMessage(first.body), "RESPONSES_TOOLS_REJECTED")

\* step 12: the retry without the extra tools
ChatRetry ==
    /\ pc = "retry"
    /\ req.endpoint = "chat"
    /\ calls' = Append(calls, ChatCall(Call(base_tools_only(req), safe_choice(req)),
                                       "base_instructions"))
    /\ \/ /\ outcome' = GatewayError
          /\ pc' = "done"
          /\ UNCHANGED <<resps, upstream>>
       \/ \E r \in ResponseSet :
             /\ resps' = Append(resps, r)
             /\ IF r.status < 400
                THEN /\ upstream' = UpstreamAfterRetry(upstream, Len(resps) + 1)
                     /\ pc' = "dispatch"
                     /\ UNCHANGED outcome
                ELSE /\ outcome' = RetryRejected(resps[upstream], r)
                     /\ pc' = "done"
                     /\ UNCHANGED upstream
    /\ UNCHANGED <<req, upLines, authCalls, creds, had_responses_tools, tools_responses, tool_choice,
                   tr, log, readFrom, exit, frames>>
    /\ UNCHANGED sideVars

\* step 13: streaming or not
ChatDispatch ==
    /\ pc = "dispatch"
    /\ req.endpoint = "chat"
    /\ IF req.stream
       THEN /\ outcome' = StreamOutcome
            /\ pc' = "stream"
       ELSE /\ pc' = "collect"
            /\ UNCHANGED outcome
    /\ UNCHANGED <<req, upLines, authCalls, creds, had_responses_tools, tools_responses, tool_choice,
                   calls, resps, upstream, tr, log, readFrom, exit, frames>>
    /\ UNCHANGED sideVars

\* ------------------------------------------------ reading the upstream

\* the loops leave at a completion event and at upstream's own [DONE] line
IsCompleted(e) == e.type = "response.completed"

IsDoneLine(e) == e.type = "[DONE]"

\* Python truthiness of a message
Truthy(m) == m # None /\ m # ""

\* evt.get("response", {}).get("error", {}).get("message", "response.failed")
FailedMessage(d) == IF d = None THEN "response.failed" ELSE d

\* reading one more line of the response the handler holds
ReadLine(e) ==
    /\ Len(log) < upLines
    /\ e \in Events
    /\ log' = Append(log, e)
    /\ readFrom' = readFrom \cup {upstream}

\* `finally: await upstream.aclose()` when the loop is left
LeaveLoop(how) ==
    /\ resps' = CloseResp(resps, upstream)
    /\ exit' = how
    /\ pc' = "done"

\* ------------------------------------------------- sse_translate_chat

StopFrame == Frame("stop", None)

DoneFrame == Frame("done", None)

\* the frames one event yields
ChatStreamFrames(t, e) ==
    CASE e.type = "response.output_text.delta" -> <<Frame("content", e.d)>>
      [] e.type = "response.output_text.done" -> <<StopFrame>>
      [] e.type = "response.failed" -> <<Frame("error", FailedMessage(e.d))>>
      [] e.type = "response.completed" ->
            (IF t.sent_stop_chunk THEN <<>> ELSE <<StopFrame>>) \o <<DoneFrame>>
      [] OTHER -> <<>>

ChatStreamLocals(t, e) ==
    IF e.type \in {"response.output_text.done", "response.completed"}
    THEN [t EXCEPT !.sent_stop_chunk = TRUE]
    ELSE t

\* the events at which the translator's loop breaks
ChatStreamBreaks(e) == IsCompleted(e) \/ IsDoneLine(e)

ChatStreamEvent ==
    /\ pc = "stream"
    /\ req.endpoint = "chat"
    /\ \E e \in Events :
          /\ ReadLine(e)
          /\ frames' = frames \o ChatStreamFrames(tr, e)
          /\ tr' = ChatStreamLocals(tr, e)
          /\ IF ChatStreamBreaks(e) THEN LeaveLoop(e.type)
             ELSE UNCHANGED <<resps, exit, pc>>
    /\ UNCHANGED <<req, upLines, authCalls, creds, had_responses_tools, tools_responses, tool_choice,
                   calls, upstream, outcome>>
    /\ UNCHANGED sideVars

\* the upstream stream ends without a completion event
ChatStreamEnd ==
    /\ pc = "stream"
    /\ req.endpoint = "chat"
    /\ LeaveLoop("eof")
    /\ UNCHANGED <<req, upLines, authCalls, creds, had_responses_tools, tools_responses, tool_choice,
                   calls, upstream, tr, log, readFrom, frames, outcome>>
    /\ UNCHANGED sideVars

\* the client goes away while the generator is suspended at a yield
StreamDisconnect(endpoint) ==
    /\ pc = "stream"
    /\ req.endpoint = endpoint
    /\ frames # <<>>
    /\ LeaveLoop("disconnect")
    /\ UNCHANGED <<req, upLines, authCalls, creds, had_responses_tools, tools_responses, tool_choice,
                   calls, upstream, tr, log, readFrom, frames, outcome>>
    /\ UNCHANGED sideVars

ChatStreamDisconnect == StreamDisconnect("chat")

\* ------------------------------- process_chat_completion, not streaming

ChatCollectLocals(t, e) ==
    CASE e.type = "response.output_text.delta" ->
            [t EXCEPT !.full_text = Append(@, e.d)]
      [] e.type = "response.failed" ->
            [t EXCEPT !.error_message = FailedMessage(e.d)]
      [] OTHER -> t

ChatCollectBreaks(e) == IsCompleted(e) \/ IsDoneLine(e)

\* after the loop: `if error_message: raise`, else the completion document
ChatCollectResult(t) ==
    IF Truthy(t.error_message)
    THEN ErrorOutcome(502, t.error_message, None)
    ELSE DocOutcome(IF t.full_text = <<>> THEN NoContent ELSE t.full_text)

ChatCollectEvent ==
    /\ pc = "collect"
    /\ req.endpoint = "chat"
    /\ \E e \in Events :
          /\ ReadLine(e)
          /\ tr' = ChatCollectLocals(tr, e)
          /\ IF ChatCollectBreaks(e)
             THEN /\ LeaveLoop(e.type)
                  /\ outcome' = ChatCollectResult(tr')
             ELSE UNCHANGED <<resps, exit, pc, outcome>>
    /\ UNCHANGED <<req, upLines, authCalls, creds, had_responses_tools, tools_responses, tool_choice,
                   calls, upstream, frames>>
    /\ UNCHANGED sideVars

ChatCollectEnd ==
    /\ pc = "collect"
    /\ req.endpoint = "chat"
    /\ LeaveLoop("eof")
    /\ outcome' = ChatCollectResult(tr)
    /\ UNCHANGED <<req, upLines, authCalls, creds, had_responses_tools, tools_responses, tool_choice,
                   calls, upstream, tr, log, readFrom, frames>>
    /\ UNCHANGED sideVars

\* ------------------------------------------- process_text_completion

TextGetAuth == CredentialStep("text")

\* step 8: the upstream call, without tools
TextCallUpstream ==
    /\ pc = "call"
    /\ req.endpoint = "text"
    /\ calls' = Append(calls, Call(<<>>, None))
    /\ \/ /\ outcome' = GatewayError
          /\ pc' = "done"
          /\ UNCHANGED <<resps, upstream>>
       \/ /\ \E r \in ResponseSet : resps' = Append(resps, r)
          /\ upstream' = Len(resps) + 1
          /\ pc' = "status"
          /\ UNCHANGED outcome
    /\ UNCHANGED <<req, upLines, authCalls, creds, had_responses_tools, tools_responses, tool_choice,
                   tr, log, readFrom, exit, frames>>
    /\ UNCHANGED sideVars

\* steps 9 and 10: the status, then streaming or not
TextUpstreamStatus ==
    /\ pc = "status"
    /\ req.endpoint = "text"
    /\ IF resps[upstream].status >= 400
       THEN /\ outcome' = UpstreamError(resps[upstream])
            /\ pc' = "done"
       ELSE IF req.stream
            THEN /\ outcome' = StreamOutcome
                 /\ pc' = "stream"
            ELSE /\ pc' = "collect"
                 /\ UNCHANGED outcome
    /\ UNCHANGED <<req, upLines, authCalls, creds, had_responses_tools, tools_responses, tool_choice,
                   calls, resps, upstream, tr, log, readFrom, exit, frames>>
    /\ UNCHANGED sideVars

\* sse_translate_text: the frames one line yields
TextStreamFrames(e) ==
    CASE e.type = "response.output_text.delta" -> <<Frame("text", e.d)>>
      [] e.type = "response.output_text.done" -> <<StopFrame>>
      [] e.type = "[DONE]" -> <<StopFrame>>
      [] e.type = "response.completed" -> <<DoneFrame>>
      [] OTHER -> <<>>

TextStreamBreaks(e) == IsCompleted(e)

TextStreamEvent ==
    /\ pc = "stream"
    /\ req.endpoint = "text"
    /\ \E e \in Events :
          /\ ReadLine(e)
          /\ frames' = frames \o TextStreamFrames(e)
          /\ IF TextStreamBreaks(e) THEN LeaveLoop(e.type)
             ELSE UNCHANGED <<resps, exit, pc>>
    /\ UNCHANGED <<req, upLines, authCalls, creds, had_responses_tools, tools_responses, tool_choice,
                   calls, upstream, tr, outcome>>
    /\ UNCHANGED sideVars

TextStreamEnd ==
    /\ pc = "stream"
    /\ req.endpoint = "text"
    /\ LeaveLoop("eof")
    /\ UNCHANGED <<req, upLines, authCalls, creds, had_responses_tools, tools_responses, tool_choice,
                   calls, upstream, tr, log, readFrom, frames, outcome>>
    /\ UNCHANGED sideVars

TextStreamDisconnect == StreamDisconnect("text")

\* the aggregation of process_text_completion
TextCollectLocals(t, e) ==
    IF e.type = "response.output_text.delta"
    THEN [t EXCEPT !.full_text = Append(@, e.d)]
    ELSE t

TextCollectBreaks(e) == IsCompleted(e) \/ IsDoneLine(e)

TextCollectEvent ==
    /\ pc = "collect"
    /\ req.endpoint = "text"
    /\ \E e \in Events :
          /\ ReadLine(e)
          /\ tr' = TextCollectLocals(tr, e)
          /\ IF TextCollectBreaks(e)
             THEN /\ LeaveLoop(e.type)
                  /\ outcome' = DocOutcome(tr'.full_text)
             ELSE UNCHANGED <<resps, exit, pc, outcome>>
    /\ UNCHANGED <<req, upLines, authCalls, creds, had_responses_tools, tools_responses, tool_choice,
                   calls, upstream, frames>>
    /\ UNCHANGED sideVars

TextCollectEnd ==
    /\ pc = "collect"
    /\ req.endpoint = "text"
    /\ LeaveLoop("eof")
    /\ outcome' = DocOutcome(tr.full_text)
    /\ UNCHANGED <<req, upLines, authCalls, creds, had_responses_tools, tools_responses, tool_choice,
                   calls, upstream, tr, log, readFrom, frames>>
    /\ UNCHANGED sideVars

\* --------------------------------------------- process_responses_api

RespGetAuth == CredentialStep("responses")

\* _safe_tool_choice
SafeToolChoice(tc) == IF tc \in {"auto", "none", "obj"} THEN tc ELSE "auto"

\* the upstream POST of process_responses_api: the payload's tools as they are
RespCallUpstream ==
    /\ pc = "call"
    /\ req.endpoint = "responses"
    /\ calls' = Append(calls, [tools |-> req.tools,
                               tool_choice |-> SafeToolChoice(PayloadToolChoice(req)),
                               store |-> FALSE, stream |-> TRUE])
    /\ \/ /\ outcome' = ErrorOutcome(502, GatewayMsg, None)
          /\ pc' = "done"
          /\ UNCHANGED <<resps, upstream>>
       \/ /\ \E r \in ResponseSet : resps' = Append(resps, r)
          /\ upstream' = Len(resps) + 1
          /\ pc' = "status"
          /\ UNCHANGED outcome
    /\ UNCHANGED <<req, upLines, authCalls, creds, had_responses_tools, tools_responses, tool_choice,
                   tr, log, readFrom, exit, frames>>
    /\ UNCHANGED sideVars

\* err_message of process_responses_api
RespErrMessage(body) == IF body # None /\ body # "" THEN body ELSE "Upstream error"

\* the status: an error closes the response and is raised
RespUpstreamStatus ==
    /\ pc = "status"
    /\ req.endpoint = "responses"
    /\ IF resps[upstream].status >= 400
       THEN /\ resps' = CloseResp(resps, upstream)
            /\ outcome' = ErrorOutcome(resps[upstream].status,
                                       RespErrMessage(resps[upstream].body), None)
            /\ pc' = "done"
       ELSE /\ UNCHANGED resps
            /\ IF req.stream
               THEN /\ outcome' = StreamOutcome
                    /\ pc' = "stream"
               ELSE /\ pc' = "collect"
                    /\ UNCHANGED outcome
    /\ UNCHANGED <<req, upLines, authCalls, creds, had_responses_tools, tools_responses, tool_choice,
                   calls, upstream, tr, log, readFrom, exit, frames>>
    /\ UNCHANGED sideVars

\* _proxy_stream: every line is passed on, up to the end of the stream
RespProxyEvent ==
    /\ pc = "stream"
    /\ req.endpoint = "responses"
    /\ \E e \in Events :
          /\ ReadLine(e)
          /\ frames' = Append(frames, Frame("line", e.type))
    /\ UNCHANGED <<req, upLines, pc, authCalls, creds, had_responses_tools, tools_responses,
                   tool_choice, calls, resps, upstream, tr, exit, outcome>>
    /\ UNCHANGED sideVars

RespProxyEnd ==
    /\ pc = "stream"
    /\ req.endpoint = "responses"
    /\ LeaveLoop("eof")
    /\ UNCHANGED <<req, upLines, authCalls, creds, had_responses_tools, tools_responses, tool_choice,
                   calls, upstream, tr, log, readFrom, frames, outcome>>
    /\ UNCHANGED sideVars

\* httpx.HTTPError while reading: a failed event and the sentinel are sent
RespProxyInterrupted ==
    /\ pc = "stream"
    /\ req.endpoint = "responses"
    /\ frames' = frames \o <<Frame("line", "response.failed"), DoneFrame>>
    /\ LeaveLoop("interrupted")
    /\ UNCHANGED <<req, upLines, authCalls, creds, had_responses_tools, tools_responses, tool_choice,
                   calls, upstream, tr, log, readFrom, outcome>>
    /\ UNCHANGED sideVars

RespProxyDisconnect == StreamDisconnect("responses")

\* _collect_non_stream_response
RespFailedMessage(d) == IF d # None /\ d # "" THEN d ELSE "response.failed"

RespCollectLocals(t, e) ==
    CASE e.type = "response.output_text.delta" ->
            [t EXCEPT !.full_text = Append(@, e.d)]
      [] e.type = "response.failed" ->
            [t EXCEPT !.error_message = RespFailedMessage(e.d)]
      [] OTHER -> t

RespCollectBreaks(e) ==
    IsDoneLine(e) \/ e.type \in {"response.completed", "response.failed"}

RespCollectResult(t) ==
    IF Truthy(t.error_message)
    THEN ErrorOutcome(502, t.error_message, None)
    ELSE DocOutcome(t.full_text)

RespCollectEvent ==
    /\ pc = "collect"
    /\ req.endpoint = "responses"
    /\ \E e \in Events :
          /\ ReadLine(e)
          /\ tr' = RespCollectLocals(tr, e)
          /\ IF RespCollectBreaks(e)
             THEN /\ LeaveLoop(e.type)
                  /\ outcome' = RespCollectResult(tr')
             ELSE UNCHANGED <<resps, exit, pc, outcome>>
    /\ UNCHANGED <<req, upLines, authCalls, creds, had_responses_tools, tools_responses, tool_choice,
                   calls, upstream, frames>>
    /\ UNCHANGED sideVars

RespCollectEnd ==
    /\ pc = "collect"
    /\ req.endpoint = "responses"
    /\ LeaveLoop("eof")
    /\ outcome' = RespCollectResult(tr)
    /\ UNCHANGED <<req, upLines, authCalls, creds, had_responses_tools, tools_responses, tool_choice,
                   calls, upstream, tr, log, readFrom, frames>>
    /\ UNCHANGED sideVars

\* ------------------------------------------------ load_chatgpt_tokens

\* the two fetches that run against the store
Fetchers == {1, 2}

\* read_auth_file found no readable auth.json
NoFile == [file |-> "none"]

\* none of the three variables is set
NoEnviron == [GPTMOCK_HOME |-> None, CHATGPT_LOCAL_HOME |-> None, CODEX_HOME |-> None]

\* `not x` for a token: missing or the empty string
Falsy(x) == x \in {None, ""}

\* `a or b`
Or(a, b) == IF Falsy(a) THEN b ELSE a

\* The access tokens that decode to an `exp` claim.  at_stale, at_fresh and
\* at_noexp are stored tokens, at1 and at2 come from the refresh endpoint.
HasExpiry(access_token) == access_token \in {"at_stale", "at_fresh", "at1", "at2"}

\* expiry - now of such a token, in minutes: at_stale expires at the end of
\* the margin, at_fresh one minute after it
Expiry(access_token) ==
    CASE access_token = "at_stale" -> RefreshMargin
      [] access_token = "at_fresh" -> RefreshMargin + 1
      [] OTHER -> 60

\* now - refreshed_at of a last_refresh that parses as a date, in minutes:
\* "old" is a minute more than the age, "edge" the age to the minute,
\* "recent" the instant of a refresh
LastRefreshAge(last_refresh) ==
    CASE last_refresh = "old" -> RefreshAge + 1
      [] last_refresh = "edge" -> RefreshAge
      [] OTHER -> 0

\* the age is looked at whatever the token says
should_refresh_either(access_token, last_refresh) ==
    \/ Falsy(access_token)
    \/ HasExpiry(access_token) /\ Expiry(access_token) <= RefreshMargin
    \/ last_refresh # None /\ LastRefreshAge(last_refresh) >= RefreshAge

\* expiry <= now + 5 minutes; without an expiry, refreshed_at <= now - 55
\* minutes; last_refresh is None when absent or no ISO date
should_refresh_access_token(access_token, last_refresh) ==
    IF Falsy(access_token) THEN TRUE
    ELSE IF HasExpiry(access_token) THEN Expiry(access_token) <= RefreshMargin
    ELSE IF last_refresh # None THEN LastRefreshAge(last_refresh) >= RefreshAge
    ELSE FALSE

\* the chatgpt_account_id claim of an id token
derive_account_id(id_token) ==
    CASE id_token = "id0" -> "acct0"
      [] id_token = "id1" -> "acct1"
      [] id_token = "id2" -> "acct2"
      [] OTHER -> None

\* the records the login flow can have left in auth.json
StoredRecords ==
    [file : {"auth"},
     access_token : {None, "at_stale", "at_fresh", "at_noexp"},
     account_id : {None, "acct0"},
     id_token : {None, "id0", "idN"},
     refresh_token : {None, "rt0"},
     last_refresh : {None, "old", "edge", "recent"}]

\* What the POST to the token endpoint comes to, for fetcher p.  A JSON
\* object carries id_token, access_token and refresh_token, each possibly
\* absent (None); not_object is a JSON value that is no object (a list, null).
RefreshOutcomes(p) ==
    [kind : {"network_error", "status_error", "not_json", "not_object"},
     id_token : {None}, access_token : {None}, refresh_token : {None}]
    \cup [kind : {"object"},
          id_token : {None, "idN", IF p = 1 THEN "id1" ELSE "id2"},
          access_token : {None, "", IF p = 1 THEN "at1" ELSE "at2"},
          refresh_token : {None, IF p = 1 THEN "rt1" ELSE "rt2"}]

NoOutcomeYet == [kind |-> "none", id_token |-> None, access_token |-> None,
                 refresh_token |-> None]

\* _refresh_chatgpt_tokens raises: data.get on a value that has no get
RefreshRaises(o) == o.kind = "not_object"

\* _refresh_chatgpt_tokens returns None
RefreshReturnsNone(o) ==
    \/ o.kind \in {"network_error", "status_error", "not_json"}
    \/ o.kind = "object" /\ (o.id_token = None \/ o.access_token = None)

\* the dict _refresh_chatgpt_tokens returns otherwise
Refreshed(o, refresh_token) ==
    [id_token |-> o.id_token,
     access_token |-> o.access_token,
     refresh_token |-> Or(o.refresh_token, refresh_token),
     account_id |-> derive_account_id(o.id_token)]

\* the stored tokens are kept wherever there are some
Merged_stored(auth, refreshed) ==
    [access_token |-> Or(auth.access_token, refreshed.access_token),
     id_token |-> Or(auth.id_token, refreshed.id_token),
     refresh_token |-> Or(auth.refresh_token, refreshed.refresh_token),
     account_id |-> Or(auth.account_id, refreshed.account_id)]

\* the locals of load_chatgpt_tokens after a refresh that returned a dict
Merged(auth, refreshed) ==
    [access_token |-> Or(refreshed.access_token, auth.access_token),
     id_token |-> Or(refreshed.id_token, auth.id_token),
     refresh_token |-> Or(refreshed.refresh_token, auth.refresh_token),
     account_id |-> Or(refreshed.account_id, auth.account_id)]

\* updated_tokens: the stored tokens with every non-empty local written over
UpdatedTokens(auth, m) ==
    [auth EXCEPT !.access_token = Or(m.access_token, @),
                 !.id_token = Or(m.id_token, @),
                 !.refresh_token = Or(m.refresh_token, @),
                 !.account_id = Or(m.account_id, @)]

\* last_refresh is left as it was
UpdatedAuth_stale(auth, m) == UpdatedTokens(auth, m)

\* _persist_refreshed_auth: the record handed to write_auth_file
UpdatedAuth(auth, m) == [UpdatedTokens(auth, m) EXCEPT !.last_refresh = "recent"]

\* write_auth_file keeps one field of the file that was there
write_auth_file_merging(file, auth) ==
    IF file = NoFile THEN auth ELSE [auth EXCEPT !.account_id = file.account_id]

\* write_auth_file: open(path, "w") and json.dump, the whole record at once
write_auth_file(file, auth) == auth

\* the tail of load_chatgpt_tokens, and get_effective_chatgpt_auth after it
Effective(access_token, account_id, id_token) ==
    [access_token |-> IF Falsy(access_token) THEN None ELSE access_token,
     account_id |-> IF Falsy(Or(account_id, derive_account_id(id_token))) THEN None
                    ELSE Or(account_id, derive_account_id(id_token))]

NoResult == [access_token |-> None, account_id |-> None]

FetchStart == [pc |-> "start", auth |-> NoFile, outcome |-> NoOutcomeYet, refreshes |-> 0,
               wrote |-> FALSE, written |-> NoFile, result |-> NoResult]

\* load_chatgpt_tokens up to the await of the refresh request, or to its
\* return when no refresh is attempted
LoadTokens(p) ==
    /\ fetch[p].pc = "start"
    /\ LET auth == authFile
       IN IF auth = NoFile
          THEN fetch' = [fetch EXCEPT ![p].pc = "done"]
          ELSE IF /\ ~Falsy(auth.refresh_token)
                  /\ \/ should_refresh_access_token(auth.access_token, auth.last_refresh)
                     \/ Falsy(auth.access_token)
               THEN fetch' = [fetch EXCEPT ![p].pc = "refreshing", ![p].auth = auth,
                                           ![p].refreshes = @ + 1]
               ELSE fetch' = [fetch EXCEPT
                        ![p].pc = "done",
                        ![p].auth = auth,
                        ![p].result = Effective(auth.access_token, auth.account_id,
                                                auth.id_token)]
    /\ UNCHANGED <<authFile, lastWriter, environ, notStore>>

\* the refresh request is over: the rest of load_chatgpt_tokens, which has no
\* other await.  The write can fail (write_auth_file returns False).
RefreshReturns(p) ==
    /\ fetch[p].pc = "refreshing"
    /\ \E o \in RefreshOutcomes(p), write_ok \in BOOLEAN :
         LET auth == fetch[p].auth
             m == Merged(auth, Refreshed(o, auth.refresh_token))
         IN IF RefreshRaises(o)
            THEN /\ write_ok
                 /\ fetch' = [fetch EXCEPT ![p].pc = "raised", ![p].outcome = o]
                 /\ UNCHANGED <<authFile, lastWriter>>
            ELSE IF RefreshReturnsNone(o)
            THEN /\ write_ok
                 /\ fetch' = [fetch EXCEPT
                        ![p].pc = "done",
                        ![p].outcome = o,
                        ![p].result = Effective(auth.access_token, auth.account_id,
                                                auth.id_token)]
                 /\ UNCHANGED <<authFile, lastWriter>>
            ELSE /\ fetch' = [fetch EXCEPT
                        ![p].pc = "done",
                        ![p].outcome = o,
                        ![p].wrote = write_ok,
                        ![p].written = IF write_ok THEN UpdatedAuth(auth, m) ELSE NoFile,
                        ![p].result = Effective(m.access_token, m.account_id, m.id_token)]
                 /\ authFile' = IF write_ok
                                THEN write_auth_file(authFile, UpdatedAuth(auth, m))
                                ELSE authFile
                 /\ lastWriter' = IF write_ok THEN p ELSE lastWriter
    /\ UNCHANGED <<environ, notStore>>

InitStore ==
    /\ authFile \in StoredRecords \cup {NoFile}
    /\ fetch = [p \in Fetchers |-> FetchStart]
    /\ lastWriter = 0
    /\ environ = NoEnviron
    /\ req \in {r \in PlainRequests : r.endpoint = "chat" /\ ~r.stream /\ r.responses_tools = <<>>}
    /\ upLines = 0
    /\ Start

NextStore == \E p \in Fetchers : LoadTokens(p) \/ RefreshReturns(p)

SpecStore == InitStore /\ [][NextStore]_vars

\* ----------------------- sse_translate_chat, reasoning and annotations

\* most upstream lines of one translated stream
MaxSseEvents == 4

\* settings.reasoning_compat
Compats == {"think-tags", "o3", "legacy"}

IsReasoningDelta(e) ==
    e.type \in {"response.reasoning_summary_text.delta", "response.reasoning_text.delta"}

\* part.annotations of a content_part.done event for an output_text part:
\* absent (None), the empty list ("[]"), a list of citations
Annotations == {None, "[]", "[cite]"}

\* the upstream lines of a response with reasoning and citations; the
\* completion event carries response.usage ("usage") or not
SseEvents ==
    [type : {"response.output_text.delta", "response.reasoning_summary_text.delta",
             "response.reasoning_text.delta"}, d : Chunks]
    \cup [type : {"response.content_part.done"}, d : Annotations]
    \cup [type : {"response.reasoning_summary_part.added", "response.output_text.done"},
          d : {None}]
    \cup [type : {"response.completed"}, d : {None, "usage"}]

\* locals of sse_translate_chat
SseInit == [think_open |-> FALSE, think_closed |-> FALSE, saw_any_summary |-> FALSE,
            pending_summary_paragraph |-> FALSE, sent_stop_chunk |-> FALSE]

ThinkOpen == Frame("content", "<think>")

ThinkClose == Frame("content", "</think>")

\* the closing marker is left out
CloseThink_never(compat, t) == <<>>

\* `if compat == "think-tags" and think_open and not think_closed`: the
\* closing marker, yielded before answer text and at completion
CloseThink(compat, t) ==
    IF compat = "think-tags" /\ t.think_open /\ ~t.think_closed
    THEN <<ThinkClose>>
    ELSE <<>>

\* a break in front of every summary delta
Paragraph_always(t, e, kind) ==
    IF e.type = "response.reasoning_summary_text.delta" THEN <<Frame(kind, "\n")>> ELSE <<>>

\* the paragraph break between two reasoning summaries
Paragraph(t, e, kind) ==
    IF e.type = "response.reasoning_summary_text.delta" /\ t.pending_summary_paragraph
    THEN <<Frame(kind, "\n")>>
    ELSE <<>>

\* a closed block is opened again
ReasoningFrames_reopen(compat, t, e) ==
    IF compat = "think-tags"
    THEN (IF ~t.think_open THEN <<ThinkOpen>> ELSE <<>>) \o <<Frame("content", e.d)>>
    ELSE <<Frame("reasoning", e.d)>>

\* the frames of a reasoning delta
ReasoningFrames(compat, t, e) ==
    CASE compat = "o3" ->
            Paragraph(t, e, "reasoning.content") \o <<Frame("reasoning.content", e.d)>>
      [] compat = "think-tags" ->
            (IF ~t.think_open /\ ~t.think_closed THEN <<ThinkOpen>> ELSE <<>>)
            \o (IF ~t.think_closed
                THEN Paragraph(t, e, "content") \o <<Frame("content", e.d)>>
                ELSE <<>>)
      [] OTHER ->
            IF e.type = "response.reasoning_summary_text.delta"
            THEN <<Frame("reasoning_summary", e.d)>>
            ELSE <<Frame("reasoning", e.d)>>

\* the frame of one chunk is lost
AnswerFrames_dropping(compat, t, e) ==
    IF e.d = "b" THEN <<>> ELSE <<Frame("content", e.d)>>

\* the frames of an answer delta
AnswerFrames(compat, t, e) == CloseThink(compat, t) \o <<Frame("content", e.d)>>

\* `if include_usage and upstream_usage`: the usage frame
UsageFrames(include_usage, e) ==
    IF include_usage /\ e.d # None THEN <<Frame("usage", e.d)>> ELSE <<>>

\* the frames one event yields
SseFrames(compat, include_usage, t, e) ==
    CASE e.type = "response.output_text.delta" -> AnswerFrames(compat, t, e)
      [] IsReasoningDelta(e) -> ReasoningFrames(compat, t, e)
      [] e.type = "response.content_part.done" ->
            IF e.d \notin {None, "[]"} THEN <<Frame("annotations", e.d)>> ELSE <<>>
      [] e.type = "response.output_text.done" -> <<StopFrame>>
      [] e.type = "response.completed" ->
            CloseThink(compat, t)
            \o (IF t.sent_stop_chunk THEN <<>> ELSE <<StopFrame>>)
            \o UsageFrames(include_usage, e)
            \o <<DoneFrame>>
      [] OTHER -> <<>>

\* the locals after one event
SseLocals(compat, t, e) ==
    CASE e.type = "response.output_text.delta" ->
            IF CloseThink(compat, t) # <<>>
            THEN [t EXCEPT !.think_open = FALSE, !.think_closed = TRUE]
            ELSE t
      [] e.type = "response.reasoning_summary_part.added" ->
            IF compat \in {"think-tags", "o3"}
            THEN IF t.saw_any_summary
                 THEN [t EXCEPT !.pending_summary_paragraph = TRUE]
                 ELSE [t EXCEPT !.saw_any_summary = TRUE]
            ELSE t
      [] IsReasoningDelta(e) ->
            CASE compat = "o3" ->
                    IF Paragraph(t, e, "x") # <<>>
                    THEN [t EXCEPT !.pending_summary_paragraph = FALSE]
                    ELSE t
              [] compat = "think-tags" ->
                    IF t.think_closed THEN t
                    ELSE [t EXCEPT !.think_open = TRUE,
                                   !.pending_summary_paragraph =
                                        IF Paragraph(t, e, "x") # <<>> THEN FALSE ELSE @]
              [] OTHER -> t
      [] e.type = "response.output_text.done" -> [t EXCEPT !.sent_stop_chunk = TRUE]
      [] e.type = "response.completed" ->
            IF CloseThink(compat, t) # <<>>
            THEN [t EXCEPT !.think_open = FALSE, !.think_closed = TRUE,
                           !.sent_stop_chunk = TRUE]
            ELSE [t EXCEPT !.sent_stop_chunk = TRUE]
      [] OTHER -> t

\* one more upstream line goes through the translator
SseEvent ==
    /\ pc = "translate"
    /\ Len(log) < upLines
    /\ \E e \in SseEvents :
          /\ log' = Append(log, e)
          /\ readFrom' = readFrom \cup {upstream}
          /\ frames' = frames \o SseFrames(req.reasoning_compat, req.include_usage, tr, e)
          /\ tr' = SseLocals(req.reasoning_compat, tr, e)
          /\ IF IsCompleted(e) THEN LeaveLoop(e.type)
             ELSE UNCHANGED <<resps, exit, pc>>
    /\ UNCHANGED <<req, upLines, authCalls, creds, had_responses_tools, tools_responses,
                   tool_choice, calls, upstream, outcome>>
    /\ UNCHANGED sideVars

\* the upstream stream ends without a completion event
SseEnd ==
    /\ pc = "translate"
    /\ LeaveLoop("eof")
    /\ UNCHANGED <<req, upLines, authCalls, creds, had_responses_tools, tools_responses,
                   tool_choice, calls, upstream, tr, log, readFrom, frames, outcome>>
    /\ UNCHANGED sideVars

\* a streaming chat request at the point where process_chat_completion has
\* handed its upstream response to sse_translate_chat
InitSse ==
    /\ req \in [endpoint : {"chat"}, stream : {TRUE}, tools : {<<>>}, tool_choice : {None},
                responses_tools : {<<>>}, responses_tool_choice : {None},
                default_web_search : {FALSE}, reasoning_compat : Compats,
                include_usage : BOOLEAN]
    /\ upLines = MaxSseEvents
    /\ pc = "translate"
    /\ authCalls = 1
    /\ creds = [access_token |-> "access", account_id |-> "account"]
    /\ had_responses_tools = FALSE
    /\ tools_responses = <<>>
    /\ tool_choice = "auto"
    /\ calls = <<Call(<<>>, "auto")>>
    /\ resps = <<Response(200, None)>>
    /\ upstream = 1
    /\ tr = SseInit
    /\ log = <<>>
    /\ readFrom = {}
    /\ exit = None
    /\ frames = <<>>
    /\ outcome = StreamOutcome
    /\ StoreIdle

NextSse == SseEvent \/ SseEnd

SpecSse == InitSse /\ [][NextSse]_vars

\* ------------- process_chat_completion, not streaming: the whole message

\* the upstream lines the collecting loop can read: answer and reasoning
\* deltas, a text part with or without citations, a failure, an event the
\* loop has no branch for, and the two lines that end it
AggregateEvents ==
    [type : {"response.output_text.delta", "response.reasoning_summary_text.delta",
             "response.reasoning_text.delta"}, d : Chunks]
    \cup [type : {"response.content_part.done"}, d : Annotations]
    \cup [type : {"response.failed"}, d : FailMsgs]
    \cup [type : {"response.output_text.done", "response.completed", "[DONE]"},
          d : {None}]

\* locals of the collecting loop; a text is the sequence of its chunks
AggregateInit ==
    [full_text |-> <<>>, reasoning_summary_text |-> <<>>,
     reasoning_full_text |-> <<>>, error_message |-> None]

\* a branch that forgets what it has collected
AggregateLocals_last(t, e) ==
    CASE e.type = "response.output_text.delta" -> [t EXCEPT !.full_text = <<e.d>>]
      [] e.type = "response.reasoning_summary_text.delta" ->
            [t EXCEPT !.reasoning_summary_text = Append(@, e.d)]
      [] e.type = "response.reasoning_text.delta" ->
            [t EXCEPT !.reasoning_full_text = Append(@, e.d)]
      [] e.type = "response.failed" ->
            [t EXCEPT !.error_message = FailedMessage(e.d)]
      [] OTHER -> t

\* the if/elif chain on the event's type; content_part.done has no branch
AggregateLocals(t, e) ==
    CASE e.type = "response.output_text.delta" ->
            [t EXCEPT !.full_text = Append(@, e.d)]
      [] e.type = "response.reasoning_summary_text.delta" ->
            [t EXCEPT !.reasoning_summary_text = Append(@, e.d)]
      [] e.type = "response.reasoning_text.delta" ->
            [t EXCEPT !.reasoning_full_text = Append(@, e.d)]
      [] e.type = "response.failed" ->
            [t EXCEPT !.error_message = FailedMessage(e.d)]
      [] OTHER -> t

\* the reasoning text a message carries: summary and full text, a blank
\* line between them when both are there
ReasoningText(summary, full) ==
    IF summary # <<>> /\ full # <<>> THEN summary \o <<"\n\n">> \o full
    ELSE summary \o full

\* chatmock.services.reasoning.apply_reasoning_to_message, on the content of
\* the message: the tag-wrapped mode puts the reasoning text, between its
\* markers, in front of the content; the other modes carry it in fields of
\* their own
apply_reasoning_to_message(content, summary, full, compat) ==
    IF compat = "think-tags" /\ ReasoningText(summary, full) # <<>>
    THEN <<"<think>">> \o ReasoningText(summary, full) \o <<"</think>">>
         \o (IF content = NoContent THEN <<>> ELSE content)
    ELSE content

\* {"role": "assistant", "content": full_text if full_text else None}, then
\* the reasoning; no statement gives the message an annotations key
AggregateMessage(t, compat) ==
    [content |-> apply_reasoning_to_message(
                     IF t.full_text = <<>> THEN NoContent ELSE t.full_text,
                     t.reasoning_summary_text, t.reasoning_full_text, compat),
     annotations |-> None]

\* the completion document around a message
Completion(m) ==
    [kind |-> "doc", status |-> 200, message |-> None, code |-> None,
     content |-> m.content, annotations |-> m.annotations, finish_reason |-> "stop"]

\* after the loop: `if error_message: raise`, else the completion
AggregateResult(t, compat) ==
    IF Truthy(t.error_message)
    THEN ErrorOutcome(502, t.error_message, None)
    ELSE Completion(AggregateMessage(t, compat))

\* one more upstream line goes through the collecting loop
ChatAggregateEvent ==
    /\ pc = "aggregate"
    /\ Len(log) < upLines
    /\ \E e \in AggregateEvents :
          /\ log' = Append(log, e)
          /\ readFrom' = readFrom \cup {upstream}
          /\ tr' = AggregateLocals(tr, e)
          /\ IF ChatCollectBreaks(e)
             THEN /\ LeaveLoop(e.type)
                  /\ outcome' = AggregateResult(tr', req.reasoning_compat)
             ELSE UNCHANGED <<resps, exit, pc, outcome>>
    /\ UNCHANGED <<req, upLines, authCalls, creds, had_responses_tools, tools_responses,
                   tool_choice, calls, upstream, frames>>
    /\ UNCHANGED sideVars

\* the upstream stream ends without a completion event
ChatAggregateEnd ==
    /\ pc = "aggregate"
    /\ LeaveLoop("eof")
    /\ outcome' = AggregateResult(tr, req.reasoning_compat)
    /\ UNCHANGED <<req, upLines, authCalls, creds, had_responses_tools, tools_responses,
                   tool_choice, calls, upstream, tr, log, readFrom, frames>>
    /\ UNCHANGED sideVars

\* a chat request that does not stream, at the point where
\* process_chat_completion starts to read its upstream response
InitAggregate ==
    /\ req \in [endpoint : {"chat"}, stream : {FALSE}, tools : {<<>>}, tool_choice : {None},
                responses_tools : {<<>>, <<"web_search">>}, responses_tool_choice : {None},
                default_web_search : {FALSE}, reasoning_compat : Compats]
    /\ upLines = MaxSseEvents
    /\ pc = "aggregate"
    /\ authCalls = 1
    /\ creds = [access_token |-> "access", account_id |-> "account"]
    /\ had_responses_tools = (req.responses_tools # <<>>)
    /\ tools_responses = req.responses_tools
    /\ tool_choice = "auto"
    /\ calls = <<Call(req.responses_tools, "auto")>>
    /\ resps = <<Response(200, None)>>
    /\ upstream = 1
    /\ tr = AggregateInit
    /\ log = <<>>
    /\ readFrom = {}
    /\ exit = None
    /\ frames = <<>>
    /\ outcome = NoOutcome
    /\ StoreIdle

NextAggregate == ChatAggregateEvent \/ ChatAggregateEnd

SpecAggregate == InitAggregate /\ [][NextAggregate]_vars

\* ------------------- process_chat_completion with tool lists of any size

\* chat requests whose tool entries have any of the sizes; every typed
\* extension entry is a supported one
SizedRequests ==
    [endpoint : {"chat"}, stream : {FALSE}, tools : ClientTools, tool_choice : {None},
     responses_tools : SeqsUpTo({"web_search", "web_search_preview", "junk"}, MaxRTools),
     responses_tool_choice : {None, "none"}, default_web_search : BOOLEAN,
     function_bytes : EntryBytes, extension_bytes : EntryBytes,
     model : {"gpt-5"}, gpt5_codex_instructions : {None}]

InitTools ==
    /\ req \in SizedRequests
    /\ upLines = OrchEvents
    /\ Start
    /\ StoreIdle

\* the handler up to its first upstream call
NextTools == ChatPrepare \/ ChatGetAuth \/ ChatCallUpstream

SpecTools == InitTools /\ [][NextTools]_vars

\* --------------------- process_chat_completion, step 2: the system role

\* the messages of a chat request: a role and a content
ChatMessages == [role : {"system", "user", "assistant"}, content : {"c1", "c2"}]

\* next((i for i, m in enumerate(messages) if ... m.get("role") == "system"),
\* None); 0 stands for None, the indices start at 1
sys_idx(messages) ==
    IF \E i \in 1..Len(messages) : messages[i].role = "system"
    THEN CHOOSE i \in 1..Len(messages) :
            /\ messages[i].role = "system"
            /\ \A j \in 1..(i - 1) : messages[j].role # "system"
    ELSE 0

\* messages.pop(sys_idx), then messages.insert(0, {"role": "user", ...})
RelocateSystem(messages) ==
    LET i == sys_idx(messages)
    IN IF i = 0 THEN messages
       ELSE <<[role |-> "user", content |-> messages[i].content]>>
            \o SubSeq(messages, 1, i - 1) \o SubSeq(messages, i + 1, Len(messages))

\* step 2 of the handler; tr holds its local `messages` afterwards
ChatRelocate ==
    /\ pc = "relocate"
    /\ tr' = [messages |-> RelocateSystem(req.messages)]
    /\ pc' = "relocated"
    /\ UNCHANGED <<req, upLines, authCalls, creds, had_responses_tools, tools_responses,
                   tool_choice, calls, resps, upstream, log, readFrom, exit, frames, outcome>>
    /\ UNCHANGED sideVars

\* a chat request with its list of messages, before step 2
InitMessages ==
    /\ req \in [endpoint : {"chat"}, stream : BOOLEAN,
                messages : SeqsUpTo(ChatMessages, MaxMessages)]
    /\ upLines = OrchEvents
    /\ pc = "relocate"
    /\ authCalls = 0
    /\ creds = [access_token |-> None, account_id |-> None]
    /\ had_responses_tools = FALSE
    /\ tools_responses = <<>>
    /\ tool_choice = "auto"
    /\ calls = <<>>
    /\ resps = <<>>
    /\ upstream = 0
    /\ tr = [messages |-> req.messages]
    /\ log = <<>>
    /\ readFrom = {}
    /\ exit = None
    /\ frames = <<>>
    /\ outcome = NoOutcome
    /\ StoreIdle

SpecMessages == InitMessages /\ [][ChatRelocate]_vars

\* ------------------ tool calls: sse_translate_chat and the collecting loop

\* the call identifiers upstream uses
CallIds == {"c1", "c2", "c3"}

\* the identifiers of the web searches among them
WebSearchIds == {"c1"}

\* the usage objects of upstream events
Usages == {"u1", "u2"}

\* no argument fragment in an event
NoFragment == [form |-> "none", key |-> None, v |-> None]

\* One argument fragment of a web-search event: a key and its value, given
\* as the key itself ("direct": query, max_results), as an alias of it
\* ("alias": q, limit), or inside a dict ("whole": parameters, args,
\* arguments, input).
Fragments ==
    {f \in [form : {"direct", "alias", "whole"}, key : {"query", "max_results"},
            v : {"x", "y"}] :
        f.key = "max_results" => (f.v = "x" /\ f.form # "direct")}

\* The upstream lines of a response with tool calls: an answer delta, the
\* progress events of a web search (item_id, a fragment or none), the end of
\* an output item that is a function call (arguments: a JSON string) or a
\* web search (parameters: a dict or none), a progress event, whose type no
\* branch of the two loops names, and the completion event, both with a
\* usage object in their response or without.
CallEvents ==
    [type : {"response.output_text.delta"}, item : {None}, id : {None},
     frag : {NoFragment}, d : {"a"}]
    \cup [type : {"response.web_search_call.in_progress",
                 "response.web_search_call.completed"},
          item : {None}, id : WebSearchIds, frag : Fragments \cup {NoFragment}, d : {None}]
    \cup [type : {"response.output_item.done"}, item : {"function_call"}, id : CallIds,
          frag : {NoFragment}, d : {None}]
    \cup [type : {"response.output_item.done"}, item : {"web_search_call"},
          id : WebSearchIds,
          frag : {f \in Fragments : f.form = "whole"} \cup {NoFragment}, d : {None}]
    \cup [type : {"response.in_progress"}, item : {None}, id : {None},
          frag : {NoFragment}, d : Usages \cup {None}]
    \cup [type : {"response.completed"}, item : {None}, id : {None},
          frag : {NoFragment}, d : Usages \cup {None}]

\* _extract_usage: the counts of the usage object of the event's response,
\* None when it has none
extract_usage(e) ==
    IF e.type \in {"response.in_progress", "response.completed"} THEN e.d ELSE None

IsWebSearchEvent(e) ==
    e.type \in {"response.web_search_call.in_progress", "response.web_search_call.completed"}

IsCallItem(e) == e.type = "response.output_item.done"

\* an argument map without keys; raw holds the arguments of a function call,
\* which are a string
NoArgs == [query |-> None, max_results |-> None, raw |-> None]

\* The locals of the two consumers of one response.  ws_state: per call
\* identifier, whether the dict has the key and the map under it; ws_index:
\* the index of an identifier, -1 when it has none; tool_calls and full_text:
\* the lists of the collecting loop, and usage_obj, its usage.
CallInit ==
    [ws_state |-> [c \in CallIds |-> [has |-> FALSE, args |-> NoArgs]],
     ws_index |-> [c \in CallIds |-> -1],
     ws_next_index |-> 0,
     tool_calls |-> <<>>,
     full_text |-> <<>>,
     usage_obj |-> None]

\* _merge_from: a dict is merged with update, a key or an alias is set only
\* when the map does not have the key yet
merge_from(params, f) ==
    CASE f.form = "whole" -> [params EXCEPT ![f.key] = f.v]
      [] f.form \in {"direct", "alias"} ->
            IF params[f.key] = None THEN [params EXCEPT ![f.key] = f.v] ELSE params
      [] OTHER -> params

\* ws_state after an event: a web-search event merges into the map that is
\* there or, when there is none, into a new one that is kept if it is not
\* empty; the end of an item updates the map with a parameters dict
WsState(ws_state, e) ==
    LET old == ws_state[e.id]
        params == merge_from(old.args, e.frag)
    IN CASE IsWebSearchEvent(e) ->
               IF old.has \/ params # NoArgs
               THEN [ws_state EXCEPT ![e.id] = [has |-> TRUE, args |-> params]]
               ELSE ws_state
         [] IsCallItem(e) /\ e.frag # NoFragment ->
               [ws_state EXCEPT ![e.id] =
                   [has |-> TRUE, args |-> [old.args EXCEPT ![e.frag.key] = e.frag.v]]]
         [] OTHER -> ws_state

\* eff_params, eff_args: the map kept for the identifier if there is one,
\* else the arguments of the item, else {}
EffArgs(ws_state, e) ==
    IF WsState(ws_state, e)[e.id].has THEN WsState(ws_state, e)[e.id].args
    ELSE IF e.item = "function_call" THEN [NoArgs EXCEPT !.raw = "s"]
    ELSE NoArgs

\* every frame takes a new index
WsIndex_fresh(t, id) == [t EXCEPT !.ws_index[id] = t.ws_next_index, !.ws_next_index = @ + 1]

\* `if call_id not in ws_index: ws_index[call_id] = ws_next_index;
\* ws_next_index += 1`
WsIndex(t, id) ==
    IF t.ws_index[id] = -1
    THEN [t EXCEPT !.ws_index[id] = t.ws_next_index, !.ws_next_index = @ + 1]
    ELSE t

\* the name of the call of an item
CallName(e) == IF e.item = "web_search_call" THEN "web_search" ELSE "f"

\* the tool-call frame, and the frame with finish_reason "tool_calls"
CallFrame(t, e, name) ==
    Frame("tool_call", [index |-> WsIndex(t, e.id).ws_index[e.id], id |-> e.id,
                        name |-> name, args |-> EffArgs(t.ws_state, e)])

FinishFrame == Frame("finish", "tool_calls")

\* the frames sse_translate_chat yields for one event; it reads the usage
\* of the completion event only
CallFrames(include_usage, t, e) ==
    CASE IsWebSearchEvent(e) ->
            <<CallFrame(t, e, "web_search")>>
            \o (IF e.type = "response.web_search_call.completed" THEN <<FinishFrame>>
                ELSE <<>>)
      [] IsCallItem(e) -> <<CallFrame(t, e, CallName(e)), FinishFrame>>
      [] e.type = "response.output_text.delta" -> <<Frame("content", e.d)>>
      [] e.type = "response.completed" ->
            <<StopFrame>> \o UsageFrames(include_usage, e) \o <<DoneFrame>>
      [] OTHER -> <<>>

\* the usage of the collecting loop is never replaced
CollectUsage_first(usage_obj, e) ==
    IF usage_obj = None THEN extract_usage(e) ELSE usage_obj

\* `mu = _extract_usage(evt); if mu: usage_obj = mu`, for every event
CollectUsage(usage_obj, e) ==
    IF extract_usage(e) # None THEN extract_usage(e) ELSE usage_obj

\* the locals of the two consumers after one event: the translator's maps
\* and indices; the collecting loop's usage, its text, and its tool_calls,
\* to which only the end of a function_call item adds
CallLocals(t, e) ==
    CASE IsWebSearchEvent(e) ->
            [WsIndex(t, e.id) EXCEPT !.ws_state = WsState(t.ws_state, e)]
      [] IsCallItem(e) ->
            [WsIndex(t, e.id) EXCEPT
                !.ws_state = WsState(t.ws_state, e),
                !.tool_calls = IF e.item = "function_call"
                               THEN Append(@, [id |-> e.id, name |-> CallName(e)])
                               ELSE @]
      [] e.type = "response.output_text.delta" ->
            [t EXCEPT !.full_text = Append(@, e.d)]
      [] OTHER -> [t EXCEPT !.usage_obj = CollectUsage(@, e)]

\* one more upstream line, read by the translator of a streaming request and
\* by the collecting loop of the same request sent without streaming
CallEvent ==
    /\ pc = "calls"
    /\ Len(log) < upLines
    /\ \E e \in CallEvents :
          /\ log' = Append(log, e)
          /\ readFrom' = readFrom \cup {upstream}
          /\ frames' = frames \o CallFrames(req.include_usage, tr, e)
          /\ tr' = CallLocals(tr, e)
          /\ IF IsCompleted(e) THEN LeaveLoop(e.type)
             ELSE UNCHANGED <<resps, exit, pc>>
    /\ UNCHANGED <<req, upLines, authCalls, creds, had_responses_tools, tools_responses,
                   tool_choice, calls, upstream, outcome>>
    /\ UNCHANGED sideVars

\* a chat request with a function tool and the web search, with or without
\* stream_options.include_usage, at the point where its upstream response is
\* read
InitCalls ==
    /\ req \in [endpoint : {"chat"}, tools : {<<"chat_function">>}, tool_choice : {None},
                responses_tools : {<<"web_search">>}, responses_tool_choice : {None},
                default_web_search : {FALSE}, include_usage : BOOLEAN]
    /\ upLines = MaxCallEvents
    /\ pc = "calls"
    /\ authCalls = 1
    /\ creds = [access_token |-> "access", account_id |-> "account"]
    /\ had_responses_tools = (req.responses_tools # <<>>)
    /\ tools_responses = convert_tools_chat_to_responses(req.tools) \o req.responses_tools
    /\ tool_choice = "auto"
    /\ calls = <<Call(tools_responses, "auto")>>
    /\ resps = <<Response(200, None)>>
    /\ upstream = 1
    /\ tr = CallInit
    /\ log = <<>>
    /\ readFrom = {}
    /\ exit = None
    /\ frames = <<>>
    /\ outcome = NoOutcome
    /\ StoreIdle

SpecCalls == InitCalls /\ [][CallEvent]_vars

\* ------------------------------------------------- normalize_model_name

\* the keys of `mapping` and the identifier each stands for
Mapping ==
    [b \in {"gpt5", "gpt-5-latest", "gpt-5", "gpt-5.1", "gpt5.2", "gpt-5.2",
            "gpt-5.2-latest", "gpt5.2-codex", "gpt-5.2-codex", "gpt-5.2-codex-latest",
            "gpt5-codex", "gpt-5-codex", "gpt-5-codex-latest", "gpt-5.1-codex",
            "gpt-5.1-codex-max", "codex", "codex-mini", "codex-mini-latest",
            "gpt-5.1-codex-mini"} |->
        CASE b \in {"gpt5", "gpt-5-latest", "gpt-5"} -> "gpt-5"
          [] b \in {"gpt5.2", "gpt-5.2", "gpt-5.2-latest"} -> "gpt-5.2"
          [] b \in {"gpt5.2-codex", "gpt-5.2-codex", "gpt-5.2-codex-latest"} -> "gpt-5.2-codex"
          [] b \in {"gpt5-codex", "gpt-5-codex", "gpt-5-codex-latest"} -> "gpt-5-codex"
          [] b \in {"codex", "codex-mini", "codex-mini-latest"} -> "codex-mini-latest"
          [] OTHER -> b]

\* the effort suffixes with one separator
EffortSuffixes(sep) ==
    IF sep = "-" THEN {"-minimal", "-low", "-medium", "-high", "-xhigh"}
    ELSE {"_minimal", "_low", "_medium", "_high", "_xhigh"}

\* A requested model name is the sequence of its parts: a base, up to
\* MaxSuffixes effort suffixes, and possibly a tag after a colon.  The bases
\* are the keys of `mapping` and two names that are not among them.
ModelNames ==
    LET Bases == {<<b>> : b \in DOMAIN Mapping \cup {"gpt-4o", "o3"}}
        Suffixed == {b \o s : b \in Bases,
                     s \in SeqsUpTo(EffortSuffixes("-") \cup EffortSuffixes("_"), MaxSuffixes)}
    IN Suffixed \cup {n \o <<":latest">> : n \in Suffixed} \cup {<<>>}

\* name.split(":", 1)[0]
BeforeColon(name) ==
    IF \E i \in 1..Len(name) : name[i] = ":latest"
    THEN SubSeq(name, 1, (CHOOSE i \in 1..Len(name) : name[i] = ":latest") - 1)
    ELSE name

\* one round of the loop over the separators: the suffix at the end, if it
\* is an effort with this separator, is cut off
StripEffort(base, sep) ==
    IF base # <<>> /\ base[Len(base)] \in EffortSuffixes(sep)
    THEN SubSeq(base, 1, Len(base) - 1)
    ELSE base

\* only the suffixes joined by "-" are cut off
normalize_model_name_dash(name, debug_model) ==
    LET base == StripEffort(BeforeColon(name), "-")
    IN IF debug_model = "override" THEN <<"override">>
       ELSE IF name = <<>> THEN <<"gpt-5">>
       ELSE IF Len(base) = 1 /\ base[1] \in DOMAIN Mapping THEN <<Mapping[base[1]]>>
       ELSE base

\* normalize_model_name: the override if it is not blank, "gpt-5" for an
\* empty name, else the name before the colon without one "-" suffix and
\* one "_" suffix, looked up in `mapping`
normalize_model_name(name, debug_model) ==
    LET base == StripEffort(StripEffort(BeforeColon(name), "-"), "_")
    IN IF debug_model = "override" THEN <<"override">>
       ELSE IF name = <<>> THEN <<"gpt-5">>
       ELSE IF Len(base) = 1 /\ base[1] \in DOMAIN Mapping THEN <<Mapping[base[1]]>>
       ELSE base

\* `model = normalize_model_name(requested_model, settings.debug_model)`;
\* tr holds the local `model` afterwards
NormalizeModel ==
    /\ pc = "model"
    /\ tr' = [model |-> normalize_model_name(req.model, req.debug_model)]
    /\ pc' = "normalized"
    /\ UNCHANGED <<req, upLines, authCalls, creds, had_responses_tools, tools_responses,
                   tool_choice, calls, resps, upstream, log, readFrom, exit, frames, outcome>>
    /\ UNCHANGED sideVars

\* a request with its model name, and the override of the settings: unset,
\* blank, or a name
InitModels ==
    /\ req \in [endpoint : Endpoints, model : ModelNames,
                debug_model : {None, "blank", "override"}]
    /\ upLines = OrchEvents
    /\ pc = "model"
    /\ authCalls = 0
    /\ creds = [access_token |-> None, account_id |-> None]
    /\ had_responses_tools = FALSE
    /\ tools_responses = <<>>
    /\ tool_choice = "auto"
    /\ calls = <<>>
    /\ resps = <<>>
    /\ upstream = 0
    /\ tr = [model |-> <<>>]
    /\ log = <<>>
    /\ readFrom = {}
    /\ exit = None
    /\ frames = <<>>
    /\ outcome = NoOutcome
    /\ StoreIdle

SpecModels == InitModels /\ [][NormalizeModel]_vars

\* ------------------------------------------- the session identifier

\* A request as far as its session identifier goes: the endpoint, the final
\* instructions and the input items of the handler, and the session_id
\* header of the client, None when there is none.
SessionRequests ==
    [endpoint : Endpoints, instructions : {"i1", "i2"}, input : {"x1", "x2"},
     header : {None, "s1"}]

\* client_session_id as the handler gets it: the router passes the header
\* to process_responses_api only; the other two handlers are called without
\* it and keep the default None
ClientSessionId(r) == IF r.endpoint = "responses" THEN r.header ELSE None

\* ensure_session_id: the identifier of the client when there is one, else
\* an identifier that is a function of the instructions and the input
ensure_session_id(instructions, input_items, client_session_id) ==
    IF client_session_id # None THEN client_session_id
    ELSE CASE instructions = "i1" /\ input_items = "x1" -> "h11"
           [] instructions = "i1" /\ input_items = "x2" -> "h12"
           [] instructions = "i2" /\ input_items = "x1" -> "h21"
           [] OTHER -> "h22"

\* one request of the process run, up to its upstream POST: log keeps the
\* request, calls the session_id header and the prompt_cache_key of the POST
SessionCall ==
    /\ pc = "session"
    /\ Len(calls) < upLines
    /\ \E r \in SessionRequests :
          LET session_id == ensure_session_id(r.instructions, r.input, ClientSessionId(r))
          IN /\ req' = r
             /\ log' = Append(log, r)
             /\ calls' = Append(calls, [session_id |-> session_id,
                                        prompt_cache_key |-> session_id])
    /\ UNCHANGED <<upLines, pc, authCalls, creds, had_responses_tools, tools_responses,
                   tool_choice, resps, upstream, tr, readFrom, exit, frames, outcome>>
    /\ UNCHANGED sideVars

\* a process that has served no request yet
InitSession ==
    /\ req \in SessionRequests
    /\ upLines = MaxSessionCalls
    /\ pc = "session"
    /\ authCalls = 0
    /\ creds = [access_token |-> "access", account_id |-> "account"]
    /\ had_responses_tools = FALSE
    /\ tools_responses = <<>>
    /\ tool_choice = "auto"
    /\ calls = <<>>
    /\ resps = <<>>
    /\ upstream = 0
    /\ tr = TrInit
    /\ log = <<>>
    /\ readFrom = {}
    /\ exit = None
    /\ frames = <<>>
    /\ outcome = NoOutcome
    /\ StoreIdle

SpecSession == InitSession /\ [][SessionCall]_vars

\* -------------------- process_responses_api with reasoning in the stream

\* the upstream lines of a response with reasoning
StrictEvents ==
    [type : {"response.output_text.delta", "response.reasoning_summary_text.delta",
             "response.reasoning_text.delta"}, d : Chunks]
    \cup [type : {"response.completed"}, d : {None}]

\* locals of _collect_non_stream_response
StrictInit ==
    [full_text |-> <<>>, reasoning_summary_text |-> <<>>, reasoning_full_text |-> <<>>]

StrictLocals(t, e) ==
    CASE e.type = "response.output_text.delta" ->
            [t EXCEPT !.full_text = Append(@, e.d)]
      [] e.type = "response.reasoning_summary_text.delta" ->
            [t EXCEPT !.reasoning_summary_text = Append(@, e.d)]
      [] e.type = "response.reasoning_text.delta" ->
            [t EXCEPT !.reasoning_full_text = Append(@, e.d)]
      [] OTHER -> t

\* _apply_reasoning_text
apply_reasoning_text(output_text, summary, full, compat, strict_json_text) ==
    IF strict_json_text \/ compat # "think-tags" \/ ReasoningText(summary, full) = <<>>
    THEN output_text
    ELSE <<"<think>">> \o ReasoningText(summary, full) \o <<"</think>">> \o output_text

\* the response _collect_non_stream_response returns: the text of its
\* message, and the keys reasoning_summary and reasoning, <<>> when the
\* response has no such key
StrictResponse(t, compat, strict_json_text) ==
    [text |-> apply_reasoning_text(t.full_text, t.reasoning_summary_text,
                                   t.reasoning_full_text, compat, strict_json_text),
     reasoning_summary |->
         IF ~strict_json_text /\ compat = "legacy" THEN t.reasoning_summary_text ELSE <<>>,
     reasoning |->
         IF strict_json_text THEN <<>>
         ELSE IF compat = "legacy" THEN t.reasoning_full_text
         ELSE IF compat = "o3"
              THEN ReasoningText(t.reasoning_summary_text, t.reasoning_full_text)
         ELSE <<>>]

\* _proxy_stream: the line goes to the client as it came
StrictProxyEvent ==
    /\ pc = "stream"
    /\ Len(log) < upLines
    /\ \E e \in StrictEvents :
          /\ log' = Append(log, e)
          /\ frames' = Append(frames, Frame(e.type, e.d))
    /\ readFrom' = readFrom \cup {upstream}
    /\ UNCHANGED <<req, upLines, pc, authCalls, creds, had_responses_tools, tools_responses,
                   tool_choice, calls, resps, upstream, tr, exit, outcome>>
    /\ UNCHANGED sideVars

StrictProxyEnd ==
    /\ pc = "stream"
    /\ LeaveLoop("eof")
    /\ UNCHANGED <<req, upLines, authCalls, creds, had_responses_tools, tools_responses,
                   tool_choice, calls, upstream, tr, log, readFrom, frames, outcome>>
    /\ UNCHANGED sideVars

\* the loop of _collect_non_stream_response and the response built after it
StrictCollectEvent ==
    /\ pc = "collect"
    /\ Len(log) < upLines
    /\ \E e \in StrictEvents :
          /\ log' = Append(log, e)
          /\ tr' = StrictLocals(tr, e)
          /\ IF IsCompleted(e)
             THEN /\ LeaveLoop(e.type)
                  /\ outcome' = DocOutcome(StrictResponse(tr', req.reasoning_compat,
                                                          req.strict_json_text))
             ELSE UNCHANGED <<resps, exit, pc, outcome>>
    /\ readFrom' = readFrom \cup {upstream}
    /\ UNCHANGED <<req, upLines, authCalls, creds, had_responses_tools, tools_responses,
                   tool_choice, calls, upstream, frames>>
    /\ UNCHANGED sideVars

StrictCollectEnd ==
    /\ pc = "collect"
    /\ LeaveLoop("eof")
    /\ outcome' = DocOutcome(StrictResponse(tr, req.reasoning_compat, req.strict_json_text))
    /\ UNCHANGED <<req, upLines, authCalls, creds, had_responses_tools, tools_responses,
                   tool_choice, calls, upstream, tr, log, readFrom, frames>>
    /\ UNCHANGED sideVars

\* a request of the responses endpoint, with or without a strict text
\* format, at the point where its upstream response is read
InitStrict ==
    /\ req \in [endpoint : {"responses"}, stream : BOOLEAN, strict_json_text : BOOLEAN,
                reasoning_compat : Compats]
    /\ upLines = MaxEvents
    /\ pc = IF req.stream THEN "stream" ELSE "collect"
    /\ authCalls = 1
    /\ creds = [access_token |-> "access", account_id |-> "account"]
    /\ had_responses_tools = FALSE
    /\ tools_responses = <<>>
    /\ tool_choice = "auto"
    /\ calls = <<Call(<<>>, "auto")>>
    /\ resps = <<Response(200, None)>>
    /\ upstream = 1
    /\ tr = StrictInit
    /\ log = <<>>
    /\ readFrom = {}
    /\ exit = None
    /\ frames = <<>>
    /\ outcome = IF req.stream THEN StreamOutcome ELSE NoOutcome
    /\ StoreIdle

NextStrict == StrictProxyEvent \/ StrictProxyEnd \/ StrictCollectEvent \/ StrictCollectEnd

SpecStrict == InitStrict /\ [][NextStrict]_vars

\* ------------------- process_chat_completion: the first attempt and the retry

\* chat requests with an extension tool, for a plain model or a codex model,
\* on a server with or without instructions for the codex models
RetryRequests ==
    [endpoint : {"chat"}, stream : BOOLEAN, tools : ClientTools,
     tool_choice : ToolChoices, responses_tools : {<<"web_search">>},
     responses_tool_choice : RToolChoices, default_web_search : {FALSE},
     function_bytes : {WebSearchBytes}, extension_bytes : {WebSearchBytes},
     model : {"gpt-5", "gpt-5-codex"}, gpt5_codex_instructions : {None, "codex_instructions"}]

InitRetry ==
    /\ req \in RetryRequests
    /\ upLines = OrchEvents
    /\ Start
    /\ StoreIdle

\* the handler up to the answer to its last upstream call
NextRetry ==
    ChatPrepare \/ ChatGetAuth \/ ChatCallUpstream \/ ChatUpstreamStatus \/ ChatRetry

SpecRetry == InitRetry /\ [][NextRetry]_vars

\* ------------------------- read_auth_file and write_auth_file, by directory

\* the directories an auth.json is looked for in: two that the environment
\* can name and the three under the user's home
Dirs == {"homeA", "homeB", "~/.config/gptmock", "~/.chatgpt-local", "~/.codex"}

\* the environments: a variable is unset (None), empty, or names a directory
Environs ==
    [GPTMOCK_HOME : {None, "", "homeA"},
     CHATGPT_LOCAL_HOME : {None, "homeB"},
     CODEX_HOME : {None, "homeA"}]

\* an auth.json that json.load raises on
Unreadable == [file |-> "unreadable"]

\* the record the login flow left: a stale token and a refresh token
LoginRecord ==
    [file |-> "auth", access_token |-> "at_stale", account_id |-> "acct0",
     id_token |-> "id0", refresh_token |-> "rt0", last_refresh |-> "old"]

\* the candidates of read_auth_file, in the order it tries them
Candidates(e) ==
    <<e.GPTMOCK_HOME, e.CHATGPT_LOCAL_HOME, e.CODEX_HOME,
      "~/.config/gptmock", "~/.chatgpt-local", "~/.codex">>

\* the candidate at position i is a directory whose auth.json loads
Loads(e, files, i) ==
    /\ ~Falsy(Candidates(e)[i])
    /\ files[Candidates(e)[i]] \notin {NoFile, Unreadable}

\* the position of the first candidate whose auth.json loads (0: none)
FirstLoaded(e, files) ==
    IF \E i \in 1..6 : Loads(e, files, i)
    THEN CHOOSE i \in 1..6 : Loads(e, files, i) /\ \A j \in 1..(i - 1) : ~Loads(e, files, j)
    ELSE 0

\* the directory read_auth_file returned the record of
read_dir(e, files) ==
    IF FirstLoaded(e, files) = 0 THEN None ELSE Candidates(e)[FirstLoaded(e, files)]

\* read_auth_file: the first auth.json that loads
read_auth_file(e, files) ==
    IF FirstLoaded(e, files) = 0 THEN NoFile ELSE files[read_dir(e, files)]

\* the home directory is always the default one
get_home_dir_default(e) == "~/.config/gptmock"

\* get_home_dir: the first variable that is set and not empty, else the
\* default directory
get_home_dir(e) ==
    Or(e.GPTMOCK_HOME, Or(e.CHATGPT_LOCAL_HOME, Or(e.CODEX_HOME, "~/.config/gptmock")))

HomeFetchStart ==
    [pc |-> "start", auth |-> NoFile, dir |-> None, outcome |-> NoOutcomeYet,
     wrote |-> FALSE, written |-> NoFile, result |-> NoResult]

\* load_chatgpt_tokens up to the await of the refresh request, with the
\* directory its record came from
HomeLoad(p) ==
    /\ fetch[p].pc = "start"
    /\ LET auth == read_auth_file(environ, authFile)
       IN IF auth = NoFile
          THEN fetch' = [fetch EXCEPT ![p].pc = "done"]
          ELSE IF /\ ~Falsy(auth.refresh_token)
                  /\ \/ should_refresh_access_token(auth.access_token, auth.last_refresh)
                     \/ Falsy(auth.access_token)
               THEN fetch' = [fetch EXCEPT ![p].pc = "refreshing", ![p].auth = auth,
                                           ![p].dir = read_dir(environ, authFile)]
               ELSE fetch' = [fetch EXCEPT
                        ![p].pc = "done",
                        ![p].auth = auth,
                        ![p].dir = read_dir(environ, authFile),
                        ![p].result = Effective(auth.access_token, auth.account_id,
                                                auth.id_token)]
    /\ UNCHANGED <<authFile, lastWriter, environ, notStore>>

\* the refresh returned an id token and an access token: the record is
\* written to the auth.json of the home directory, unless the write fails
HomeRefresh(p) ==
    /\ fetch[p].pc = "refreshing"
    /\ \E o \in {x \in RefreshOutcomes(p) : /\ ~RefreshRaises(x)
                                            /\ ~RefreshReturnsNone(x)
                                            /\ ~Falsy(x.access_token)},
          write_ok \in BOOLEAN :
         LET auth == fetch[p].auth
             m == Merged(auth, Refreshed(o, auth.refresh_token))
         IN /\ fetch' = [fetch EXCEPT
                   ![p].pc = "done",
                   ![p].outcome = o,
                   ![p].wrote = write_ok,
                   ![p].written = IF write_ok THEN UpdatedAuth(auth, m) ELSE NoFile,
                   ![p].result = Effective(m.access_token, m.account_id, m.id_token)]
            /\ authFile' = IF write_ok
                           THEN [authFile EXCEPT ![get_home_dir(environ)] =
                                    write_auth_file(@, UpdatedAuth(auth, m))]
                           ELSE authFile
            /\ lastWriter' = IF write_ok THEN p ELSE lastWriter
    /\ UNCHANGED <<environ, notStore>>

InitHome ==
    /\ environ \in Environs
    /\ authFile \in {f \in [Dirs -> {NoFile, Unreadable, LoginRecord}] :
                       \A d \in {"homeB", "~/.chatgpt-local"} : f[d] # Unreadable}
    /\ fetch = [p \in Fetchers |-> HomeFetchStart]
    /\ lastWriter = 0
    /\ req \in {r \in PlainRequests : r.endpoint = "chat" /\ ~r.stream /\ r.responses_tools = <<>>}
    /\ upLines = 0
    /\ Start

NextHome == \E p \in Fetchers : HomeLoad(p) \/ HomeRefresh(p)

SpecHome == InitHome /\ [][NextHome]_vars

\* ------------------------------------------------------ specification

Handlers ==
    \/ ChatPrepare \/ ChatGetAuth \/ ChatCallUpstream \/ ChatUpstreamStatus
    \/ ChatRetry \/ ChatDispatch
    \/ ChatStreamEvent \/ ChatStreamEnd \/ ChatStreamDisconnect
    \/ ChatCollectEvent \/ ChatCollectEnd
    \/ TextGetAuth \/ TextCallUpstream \/ TextUpstreamStatus
    \/ TextStreamEvent \/ TextStreamEnd \/ TextStreamDisconnect
    \/ TextCollectEvent \/ TextCollectEnd
    \/ RespGetAuth \/ RespCallUpstream \/ RespUpstreamStatus
    \/ RespProxyEvent \/ RespProxyEnd \/ RespProxyInterrupted \/ RespProxyDisconnect
    \/ RespCollectEvent \/ RespCollectEnd

Next == Handlers

Spec == Init /\ [][Next]_vars

SpecStream == InitStream /\ [][Next]_vars

\* ------------------------------------------------------------ claims

Failed(e) == e.type = "response.failed"

SawFailed == \E i \in 1..Len(log) : Failed(log[i])

DoneFrames == {i \in 1..Len(frames) : frames[i] = DoneFrame}

\* C1: in a chat-completions call every upstream response obtained is closed
\* at most once while the call runs and exactly once when the call is over.
C1_ClosedExactlyOnce ==
    req.endpoint = "chat" =>
        \A i \in 1..Len(resps) :
            /\ resps[i].closes <= 1
            /\ pc = "done" => resps[i].closes = 1

\* C2: a streaming chat-completions reply whose upstream stream is over (by a
\* completion event, upstream's [DONE] line or the end of the stream, with or
\* without a failure event before) holds the [DONE] sentinel exactly once, as
\* its last frame.
C2_EndsWithSentinel ==
    (/\ req.endpoint = "chat"
     /\ req.stream
     /\ pc = "done"
     /\ exit \in {"response.completed", "[DONE]", "eof"})
    => /\ Cardinality(DoneFrames) = 1
       /\ frames[Len(frames)] = DoneFrame

\* C3: in stream mode, a reply whose upstream stream held a response.failed
\* event is, once the stream is over: what was sent before the failure, one
\* error frame, the [DONE] terminator, and nothing else, whatever upstream
\* sent afterwards.
C3_FailedIsTerminal ==
    (/\ req.endpoint = "chat"
     /\ req.stream
     /\ pc = "done"
     /\ exit # "disconnect"
     /\ SawFailed)
    => \E k \in 1..Len(frames) :
          /\ frames[k].t = "error"
          /\ \A j \in 1..(k - 1) : frames[j].t # "error"
          /\ Len(frames) = k + 1
          /\ frames[k + 1] = DoneFrame

\* C4: in aggregate mode, for chat completions and the responses endpoint, a
\* call that has read a response.failed event ends in a raised error, never
\* in a success document, whatever message the event carries.
C4_FailedRaises ==
    (/\ req.endpoint \in {"chat", "responses"}
     /\ ~req.stream
     /\ pc = "done"
     /\ SawFailed)
    => outcome.kind = "error"

\* the first upstream request held an extension tool (one the client sent in
\* responses_tools, or the default web search)
FirstCallExtensionTools ==
    /\ Len(calls) >= 1
    /\ \E i \in 1..Len(calls[1].tools) :
          calls[1].tools[i] \in {"web_search", "web_search_preview"}

NotExtensionTool(t) == t \notin {"web_search", "web_search_preview"}

\* the client's own tool_choice as upstream takes it
ClientToolChoice ==
    IF req.tool_choice \in {"none", "obj"} THEN req.tool_choice ELSE "auto"

\* C5: no request makes more than two upstream calls; when the first call of
\* a chat request carried extension tools and is answered with a status
\* >= 400, one more call is made, with the converted client tools only and
\* with the client's own tool_choice, whatever responses_tool_choice says.
C5_OneRetryWithBaseTools ==
    /\ Len(calls) <= 2
    /\ (/\ req.endpoint = "chat"
        /\ FirstCallExtensionTools
        /\ Len(resps) >= 1
        /\ resps[1].status >= 400
        /\ pc \notin {"status", "retry"})
       => /\ Len(calls) = 2
          /\ calls[2].tools = SelectSeq(calls[1].tools, NotExtensionTool)
          /\ Len(calls[2].tools) = Len(req.tools)
          /\ calls[2].tool_choice = ClientToolChoice

C5_Witness ==
    /\ pc = "done"
    /\ Len(calls) = 2
    /\ req.tools # <<>>
    /\ req.tool_choice = "obj"
    /\ req.responses_tool_choice = "none"
    /\ calls[1].tool_choice = "none"
    /\ calls[1].tools = <<"function", "web_search">>
    /\ calls[2].tool_choice = "obj"
    /\ calls[2].tools = <<"function">>

\* C6: when the retry is answered with a status >= 400 as well, the client
\* gets an error with the retry response's status and message and the code
\* RESPONSES_TOOLS_REJECTED.
C6_RetryErrorSurfaced ==
    (pc = "done" /\ Len(resps) = 2 /\ resps[2].status >= 400)
    => /\ outcome.kind = "error"
       /\ outcome.code = "RESPONSES_TOOLS_REJECTED"
       /\ outcome.status = resps[2].status
       /\ resps[2].body # None => outcome.message = resps[2].body

\* C7: after a retry answered with a status < 400 the handler holds the
\* retry's response and reads only that one; it reaches the dispatch with
\* the state a call whose first attempt succeeded has there; and neither
\* the status, the message nor an error code of the first attempt shows in
\* what the client gets.
C7_RetrySuccessLeavesNoTrace ==
    (Len(resps) = 2 /\ resps[2].status < 400)
    => /\ upstream = 2
       /\ readFrom \subseteq {2}
       /\ pc = "dispatch" =>
             /\ tr = TrInit
             /\ log = <<>>
             /\ frames = <<>>
             /\ outcome = NoOutcome
       /\ outcome.code = None
       /\ outcome.status # resps[1].status
       /\ outcome.message \notin {"m1", "m2", "Upstream error"}
       /\ \A i \in 1..Len(frames) : frames[i].d \notin {"m1", "m2", "Upstream error"}

C7_Witness ==
    /\ pc = "done"
    /\ Len(resps) = 2
    /\ resps[1].status = 400
    /\ resps[1].body = "m1"
    /\ resps[2].status = 200
    /\ readFrom = {2}
    /\ outcome = DocOutcome(<<"a">>)

C10_MissingCredentials ==
    /\ authCalls <= 1
    /\ (authCalls = 1 /\ (creds.access_token = None \/ creds.account_id = None))
       => /\ pc = "done"
          /\ outcome.kind = "error"
          /\ outcome.status = 401
          /\ outcome.message = "Missing ChatGPT credentials. Run 'python3 chatmock.py login' first."
          /\ calls = <<>>

C10_Witness ==
    /\ pc = "done"
    /\ req.endpoint = "responses"
    /\ creds.access_token = "access"
    /\ creds.account_id = None
    /\ outcome.status = 401
    /\ calls = <<>>

\* the refresh a fetcher attempted failed: no answer, an error status, a body
\* that is no JSON, or JSON without the two tokens (an object that lacks
\* one, or a value that is no object)
RefreshFailed(p) ==
    \/ fetch[p].outcome.kind \in {"network_error", "status_error", "not_json", "not_object"}
    \/ /\ fetch[p].outcome.kind = "object"
       /\ fetch[p].outcome.id_token = None \/ fetch[p].outcome.access_token = None

\* C11: a fetch whose refresh failed returns, with the access token and the
\* account id of the record it read (the account id taken from the stored id
\* token when the record has none), and has not written auth.json.
C11_RefreshFailureFallsBack ==
    \A p \in Fetchers :
        RefreshFailed(p) =>
            /\ fetch[p].pc = "done"
            /\ fetch[p].result.access_token = fetch[p].auth.access_token
            /\ fetch[p].result.account_id \in
                  {fetch[p].auth.account_id, derive_account_id(fetch[p].auth.id_token)}
            /\ ~fetch[p].wrote

\* the tokens only the refresh response of fetcher p holds
ResponseTokens(p) ==
    IF p = 1 THEN {"at1", "id1", "rt1", "acct1"} ELSE {"at2", "id2", "rt2", "acct2"}

ReasoningThenAnswer(n) ==
    /\ n \in 1..(Len(log) - 1)
    /\ \A i \in 1..n : IsReasoningDelta(log[i])
    /\ \A i \in (n + 1)..(Len(log) - 1) : log[i].type = "response.output_text.delta"
    /\ log[Len(log)].type = "response.completed"

\* 1 when the client asked for usage and the completion event read carries
\* it, 0 otherwise
UsageSent ==
    IF /\ req.include_usage
       /\ log # <<>>
       /\ log[Len(log)] = [type |-> "response.completed", d |-> "usage"]
    THEN 1 ELSE 0

\* C12: in think-tags mode, when the stream read is reasoning deltas, then
\* answer deltas (one, several or none), then completion, the frames are:
\* <think>, one content frame per reasoning delta, </think>, one content
\* frame per answer delta, a stop frame, the usage frame when the client
\* asked for one, and [DONE].  So there is one <think>
\* before the first reasoning text, one </think> right before the first
\* answer frame, or before the stop frame when there is no answer.
C12_ThinkTagsBalanced ==
    \A n \in 1..MaxSseEvents :
        (/\ pc = "done"
         /\ req.reasoning_compat = "think-tags"
         /\ ReasoningThenAnswer(n))
        => /\ Len(frames) = Len(log) + 3 + UsageSent
           /\ frames[1] = [t |-> "content", d |-> "<think>"]
           /\ \A i \in 1..n : frames[i + 1] = [t |-> "content", d |-> log[i].d]
           /\ frames[n + 2] = [t |-> "content", d |-> "</think>"]
           /\ \A i \in (n + 1)..(Len(log) - 1) :
                 frames[i + 2] = [t |-> "content", d |-> log[i].d]
           /\ frames[Len(log) + 2] = [t |-> "stop", d |-> None]
           /\ UsageSent = 1 => frames[Len(log) + 3] = [t |-> "usage", d |-> "usage"]
           /\ frames[Len(frames)] = [t |-> "done", d |-> None]

C12_Witness ==
    /\ pc = "done"
    /\ req.reasoning_compat = "think-tags"
    /\ Len(log) = 4
    /\ ReasoningThenAnswer(2)
    /\ log[1].type = "response.reasoning_summary_text.delta"
    /\ log[2].type = "response.reasoning_text.delta"
    /\ frames[1] = ThinkOpen
    /\ frames[4] = ThinkClose
    /\ frames[5] = [t |-> "content", d |-> "b"]

\* C13: when the stream read is answer deltas followed by completion, the
\* frames are one content frame per delta, in upstream order and with the
\* delta's text, then one stop frame, then [DONE], with nothing between the
\* two but the usage frame when the client asked for one.
C13_OneFramePerDelta ==
    (/\ pc = "done"
     /\ Len(log) >= 1
     /\ \A i \in 1..(Len(log) - 1) : log[i].type = "response.output_text.delta"
     /\ log[Len(log)].type = "response.completed")
    => /\ Len(frames) = Len(log) + 1 + UsageSent
       /\ \A i \in 1..(Len(log) - 1) : frames[i] = [t |-> "content", d |-> log[i].d]
       /\ frames[Len(log)] = [t |-> "stop", d |-> None]
       /\ UsageSent = 1 => frames[Len(log) + 1] = [t |-> "usage", d |-> "usage"]
       /\ frames[Len(frames)] = [t |-> "done", d |-> None]

C13_Witness ==
    /\ pc = "done"
    /\ Len(log) = 4
    /\ log[1] = [type |-> "response.output_text.delta", d |-> "b"]
    /\ log[2] = [type |-> "response.output_text.delta", d |-> "a"]
    /\ log[3] = [type |-> "response.output_text.delta", d |-> "b"]
    /\ log[4] = [type |-> "response.completed", d |-> None]
    /\ frames = <<Frame("content", "b"), Frame("content", "a"), Frame("content", "b"),
                  StopFrame, DoneFrame>>

\* the chunks of the events of one type read so far, in the order read
DeltasOf(type) ==
    LET sel == SelectSeq(log, LAMBDA e : e.type = type)
    IN [i \in 1..Len(sel) |-> sel[i].d]

AnswerText == DeltasOf("response.output_text.delta")

\* a call that does not stream has returned its completion document
ReturnedDocument == pc = "done" /\ outcome.kind = "doc"

ReasoningReceived ==
    ReasoningText(DeltasOf("response.reasoning_summary_text.delta"),
                  DeltasOf("response.reasoning_text.delta"))

CitationsReceived ==
    \E i \in 1..Len(log) :
        log[i] = [type |-> "response.content_part.done", d |-> "[cite]"]

\* C15: when upstream sends a content_part.done event with a non-empty
\* annotations list, the message of the non-streaming chat document carries
\* those annotations as a non-empty list.
C15_AnnotationsInMessage ==
    (ReturnedDocument /\ CitationsReceived) => outcome.annotations = "[cite]"

\* C16: a response.failed event received during a text-completion call,
\* streaming or not, is reported to the client as an error: a call that does
\* not stream ends in an error and not in a completion document, and a
\* stream carries an error frame.
C16_TextFailedReported ==
    (/\ req.endpoint = "text"
     /\ pc = "done"
     /\ exit # "disconnect"
     /\ SawFailed)
    => IF req.stream
       THEN \E i \in 1..Len(frames) : frames[i].t = "error"
       ELSE outcome.kind = "error"

\* a chat call whose last upstream request got no response: the connection
\* failed (httpx.RequestError)
NetworkFailure ==
    /\ req.endpoint = "chat"
    /\ pc = "done"
    /\ Len(calls) > Len(resps)

\* C17: a network-level failure while contacting upstream, on the first
\* call or on the retry after a tool rejection, is reported with status 502
\* and the gateway message: never with the status of an upstream response,
\* never with code RESPONSES_TOOLS_REJECTED.
C17_NetworkFailureIs502 ==
    NetworkFailure =>
        /\ outcome.kind = "error"
        /\ outcome.status = 502
        /\ outcome.message = GatewayMsg
        /\ outcome.code # "RESPONSES_TOOLS_REJECTED"
        /\ \A i \in 1..Len(resps) : outcome.status # resps[i].status

\* the retry after a rejection with status 400 fails on the network: the
\* client gets 502, not 400
C17_Witness ==
    /\ NetworkFailure
    /\ Len(calls) = 2
    /\ Len(resps) = 1
    /\ resps[1].status = 400
    /\ outcome.status = 502

\* the serialized size of the tool list of the first upstream call: the
\* converted function tools and the extension tools
CombinedBytes(r) ==
    LET nf == Len(r.tools)
        ne == Len(ChatExtraTools(r))
        eb == IF ExtraTools(r.responses_tools) = <<>> THEN WebSearchBytes
              ELSE r.extension_bytes
    IN IF nf + ne = 0 THEN 2
       ELSE 2 + nf * r.function_bytes + ne * eb + 2 * (nf + ne - 1)

RejectedForSize == outcome.code = "RESPONSES_TOOLS_TOO_LARGE"

\* C18: a chat request whose combined tool payload (converted function tools
\* plus extension tools) serializes to more than 32768 bytes is rejected with
\* status 400 and code RESPONSES_TOOLS_TOO_LARGE before any upstream call; a
\* payload at or under the cap is never rejected for size.
C18_CombinedToolsCapped ==
    (req.endpoint = "chat" /\ pc # "start" /\ ~HasUnsupported(req.responses_tools)) =>
        IF CombinedBytes(req) > MAX_TOOLS_BYTES
        THEN /\ RejectedForSize
             /\ outcome.status = 400
             /\ calls = <<>>
        ELSE ~RejectedForSize

IsSystem(m) == m.role = "system"

\* the messages of the request with the system role, and the others, each
\* in the order of the request
SystemMessages == SelectSeq(req.messages, IsSystem)

OtherMessages == SelectSeq(req.messages, LAMBDA m : ~IsSystem(m))

\* C19: after the relocation step no message of the list keeps the system
\* role: the content of every system-role message is at the front of the
\* list as a user-role message, and the other messages follow in the order
\* they had.
C19_NoSystemRoleRemains ==
    pc = "relocated" =>
        /\ \A i \in 1..Len(tr.messages) : ~IsSystem(tr.messages[i])
        /\ Len(tr.messages) = Len(req.messages)
        /\ \A i \in 1..Len(SystemMessages) :
              /\ tr.messages[i].role = "user"
              /\ \E j \in 1..Len(SystemMessages) :
                    tr.messages[i].content = SystemMessages[j].content
        /\ SubSeq(tr.messages, Len(SystemMessages) + 1, Len(tr.messages)) = OtherMessages

\* the fetches that have read a record from auth.json
HasRead == {p \in Fetchers : fetch[p].pc # "start" /\ fetch[p].auth # NoFile}

\* the access token of a record calls for a refresh: none, or an expiry
\* within the margin, or, without a decodable expiry, a last refresh of at
\* least (orEqual) or of more than the given age
TokenCallsForRefresh(auth, orEqual) ==
    \/ Falsy(auth.access_token)
    \/ HasExpiry(auth.access_token) /\ Expiry(auth.access_token) <= RefreshMargin
    \/ /\ ~HasExpiry(auth.access_token)
       /\ auth.last_refresh # None
       /\ IF orEqual THEN LastRefreshAge(auth.last_refresh) >= RefreshAge
          ELSE LastRefreshAge(auth.last_refresh) > RefreshAge

\* C21 as stated: with a refresh token, a refresh is attempted exactly when
\* the access token is missing, or its expiry lies within 5 minutes of now,
\* or, no expiry being decodable, more than 55 minutes have passed since the
\* last refresh; without a refresh token never; at most once per fetch.
\* Fails for a last refresh exactly 55 minutes old, which is refreshed.
C21_RefreshWhenOlderThan55 ==
    \A p \in HasRead :
        /\ fetch[p].refreshes <= 1
        /\ fetch[p].refreshes = 1 <=>
              /\ ~Falsy(fetch[p].auth.refresh_token)
              /\ TokenCallsForRefresh(fetch[p].auth, FALSE)

\* C21, amended: with a refresh token, a refresh is attempted exactly when
\* the access token is missing, or its expiry is no later than 5 minutes
\* from now, or, no expiry being decodable, the last refresh is 55 minutes
\* old or older; without a refresh token never; at most once per fetch.
C21_RefreshDecision ==
    /\ \A p \in Fetchers : fetch[p].refreshes <= 1
    /\ \A p \in Fetchers : (fetch[p].pc # "start" /\ fetch[p].auth = NoFile) =>
                              fetch[p].refreshes = 0
    /\ \A p \in HasRead :
          fetch[p].refreshes = 1 <=>
              /\ ~Falsy(fetch[p].auth.refresh_token)
              /\ TokenCallsForRefresh(fetch[p].auth, TRUE)

\* a token without expiry whose last refresh is 55 minutes old is refreshed;
\* the next fetch reads the new token, whose expiry is far, and does not
\* refresh
C21_Witness ==
    /\ fetch[1].pc = "done"
    /\ fetch[1].auth # NoFile
    /\ fetch[1].auth.refresh_token = "rt0"
    /\ fetch[1].auth.access_token = "at_noexp"
    /\ fetch[1].auth.last_refresh = "edge"
    /\ fetch[1].refreshes = 1
    /\ fetch[2].pc = "done"
    /\ fetch[2].auth # NoFile
    /\ fetch[2].auth.access_token = "at1"
    /\ fetch[2].refreshes = 0

\* the refresh of fetch p returned tokens
RefreshSucceeded(p) ==
    /\ fetch[p].outcome.kind = "object"
    /\ fetch[p].outcome.id_token # None
    /\ fetch[p].outcome.access_token # None

\* the account id carried by the refresh of fetch p (None: no refresh, or
\* none carried) and the id token the fetch ends with
RefreshAccountId(p) ==
    IF RefreshSucceeded(p) THEN derive_account_id(fetch[p].outcome.id_token) ELSE None

FinalIdToken(p) ==
    IF RefreshSucceeded(p) THEN fetch[p].outcome.id_token ELSE fetch[p].auth.id_token

\* C22: the account id the credential step returns is the persisted
\* account_id when there is one, else the one a successful refresh of this
\* call carries, else the one decoded from the id token; a persisted id wins
\* over a different one from the refresh.
C22_PersistedAccountIdFirst ==
    \A p \in HasRead :
        fetch[p].pc = "done" =>
            fetch[p].result.account_id =
                IF fetch[p].auth.account_id # None THEN fetch[p].auth.account_id
                ELSE IF RefreshAccountId(p) # None THEN RefreshAccountId(p)
                ELSE derive_account_id(FinalIdToken(p))

\* fetch p is over and its refresh returned an id token and a non-empty
\* access token
RefreshedTokens(p) ==
    /\ fetch[p].pc = "done"
    /\ RefreshSucceeded(p)
    /\ ~Falsy(fetch[p].outcome.access_token)

\* the record fetch p wrote holds the tokens of its refresh response (the
\* refresh token it sent when the response rotates none) and the instant of
\* the refresh
WroteRefreshedRecord(p) ==
    /\ fetch[p].wrote
    /\ fetch[p].written.access_token = fetch[p].outcome.access_token
    /\ fetch[p].written.id_token = fetch[p].outcome.id_token
    /\ fetch[p].written.refresh_token =
          Or(fetch[p].outcome.refresh_token, fetch[p].auth.refresh_token)
    /\ fetch[p].written.last_refresh = "recent"

CompletionTail ==
    (pc = "done" /\ exit = "response.completed") =>
        /\ frames[Len(frames)] = DoneFrame
        /\ \A i \in 1..Len(frames) : frames[i].t = "usage" => i = Len(frames) - 1
        /\ \A i \in 1..(Len(frames) - 1) : frames[i] # DoneFrame

\* C24: on a completion event the frames come in the order closing marker
\* (if a reasoning block is open), stop frame (if none was sent), usage frame
\* (if asked for and supplied), [DONE]; for every event sequence the closing
\* </think> marker never comes after a stop frame.
C24_CloseBeforeStop ==
    /\ CompletionTail
    /\ \A i, j \in 1..Len(frames) :
          (i < j /\ frames[i] = StopFrame) => frames[j] # ThinkClose

\* the positions of the tool-call frames sent to the client
CallFramePositions == {i \in 1..Len(frames) : frames[i].t = "tool_call"}

\* the identifier and name of every call of the collected message
CollectedCalls == {tr.tool_calls[j] : j \in 1..Len(tr.tool_calls)}

\* C25: stream mode and aggregate mode report the same tool calls for the
\* same upstream events; every tool call that is a frame in stream mode,
\* web-search calls included, is in the aggregated message's tool_calls, and
\* every call of the message is a frame, with the same identifier and name.
C25_SameToolCalls ==
    pc = "done" =>
        /\ \A i \in CallFramePositions :
              [id |-> frames[i].d.id, name |-> frames[i].d.name] \in CollectedCalls
        /\ \A c \in CollectedCalls :
              \E i \in CallFramePositions :
                  frames[i].d.id = c.id /\ frames[i].d.name = c.name

\* the identifiers of the tool-call frames before position i
IdsBefore(i) == {frames[k].d.id : k \in {k \in CallFramePositions : k < i}}

\* the position of the first tool-call frame with the identifier of frame i
FirstSeen(i) ==
    CHOOSE k \in CallFramePositions :
        /\ frames[k].d.id = frames[i].d.id
        /\ \A n \in CallFramePositions : frames[n].d.id = frames[i].d.id => k <= n

\* C26: the index of every tool-call frame is the number of distinct
\* identifiers seen before its identifier was first seen: indices go 0, 1,
\* 2, ... by first appearance, no two identifiers share one, and every later
\* frame of an identifier carries the index of the first.
C26_StableIndices ==
    \A i \in CallFramePositions :
        frames[i].d.index = Cardinality(IdsBefore(FirstSeen(i)))

\* three identifiers have the indices 0, 1, 2 in the order they came in
C26_Witness ==
    /\ Cardinality({frames[i].d.id : i \in CallFramePositions}) = 3
    /\ {frames[i].d.index : i \in CallFramePositions} = {0, 1, 2}
    /\ C26_StableIndices

\* the events before the last one that are for its call identifier and carry
\* an argument fragment
EarlierFragments ==
    {log[j].frag : j \in {j \in 1..(Len(log) - 1) :
        /\ log[j].id = log[Len(log)].id
        /\ log[j].frag # NoFragment}}

\* the arguments of the last tool-call frame
EmittedArgs ==
    frames[CHOOSE i \in CallFramePositions : \A n \in CallFramePositions : n <= i].d.args

\* C27: when an event carries an argument fragment for a call identifier
\* that had fragments before, the arguments emitted for it hold the value of
\* this later fragment under its key, whether the key came as itself, as an
\* alias or inside a dict, and they keep the keys of the earlier fragments.
C27_LaterFragmentWins ==
    (/\ log # <<>>
     /\ log[Len(log)].frag # NoFragment
     /\ EarlierFragments # {}) =>
        /\ EmittedArgs[log[Len(log)].frag.key] = log[Len(log)].frag.v
        /\ \A f \in EarlierFragments : EmittedArgs[f.key] # None

\* the events read that carry a usage object
UsageEvents == {j \in 1..Len(log) : extract_usage(log[j]) # None}

\* the usage object of the last of them
LastUsage == extract_usage(log[CHOOSE j \in UsageEvents : \A n \in UsageEvents : n <= j])

\* the usage frames sent to the client
UsageFramesSent == {i \in 1..Len(frames) : frames[i].t = "usage"}

\* the collecting loop reports the usage of the last event that carried
\* one: a later usage object replaces an earlier one
C28_AggregateUsageIsLast ==
    UsageEvents # {} => tr.usage_obj = LastUsage

\* C28: the usage reported to the client is the usage of the last upstream
\* event that carried one, whichever its type: in stream mode, when the
\* client asked for usage, one usage frame with these counts; in aggregate
\* mode the usage field.
C28_UsageIsLastCarried ==
    (pc = "done" /\ UsageEvents # {}) =>
        /\ tr.usage_obj = LastUsage
        /\ req.include_usage =>
              /\ UsageFramesSent # {}
              /\ \A i \in UsageFramesSent : frames[i].d = LastUsage

\* the web_search entries among the tools of the first upstream request
WebSearchSent == {i \in 1..Len(calls[1].tools) : calls[1].tools[i] = "web_search"}

\* C29: when responses_tools is empty or absent, the tools sent upstream
\* have exactly one web_search entry if the default-web-search flag is set
\* and responses_tool_choice is not "none", and no web_search entry if the
\* flag is unset or the caller opts out.
C29_DefaultWebSearch ==
    (req.endpoint = "chat" /\ req.responses_tools = <<>> /\ calls # <<>>) =>
        Cardinality(WebSearchSent) =
            IF req.default_web_search /\ req.responses_tool_choice # "none" THEN 1 ELSE 0

\* the web search was added next to a client tool, and the upstream answered
C29_Witness ==
    /\ req.endpoint = "chat" /\ req.responses_tools = <<>> /\ req.default_web_search
    /\ req.responses_tool_choice = "auto"
    /\ calls # <<>> /\ calls[1].tools = <<"function", "web_search">>
    /\ had_responses_tools
    /\ pc = "done"

\* the tool_choice values upstream takes: the two strings, or an object
UpstreamChoices == {"auto", "none", "obj"}

\* C30: every request body sent upstream, by the chat, the text and the
\* responses orchestrator and on the retry, has stream true, store false and
\* a tool_choice that is "auto", "none" or an object, whatever the client's
\* stream flag; a client tool_choice that is none of these, and that
\* responses_tool_choice does not override, goes upstream as "auto".
C30_UpstreamBody ==
    \A i \in 1..Len(calls) :
        /\ calls[i].stream
        /\ ~calls[i].store
        /\ calls[i].tool_choice \in UpstreamChoices
        /\ (req.tool_choice \notin UpstreamChoices /\ req.responses_tool_choice = None) =>
              calls[i].tool_choice = "auto"

\* a chat request without streaming and with tool_choice "required" was
\* sent upstream twice, both times with stream true and tool_choice "auto"
C30_Witness ==
    /\ req.endpoint = "chat" /\ ~req.stream /\ req.tool_choice = "required"
    /\ req.responses_tool_choice = None
    /\ Len(calls) = 2
    /\ calls[1].tool_choice = "auto" /\ calls[2].tool_choice = "auto"
    /\ calls[2].stream /\ ~calls[2].store

\* the requested name is a key of `mapping` followed by one effort suffix,
\* with or without a tag
SuffixedSupported ==
    /\ Len(BeforeColon(req.model)) = 2
    /\ req.model[1] \in DOMAIN Mapping
    /\ req.model[2] \in EffortSuffixes("-") \cup EffortSuffixes("_")

\* C31: a supported model name with an effort suffix joined by - or _
\* normalizes to the identifier of the name without the suffix; an override
\* of the operator is returned for every requested name; a name whose base
\* is not a supported one comes back as this base, unchanged.
C31_NormalizeModel ==
    pc = "normalized" =>
        /\ req.debug_model = "override" => tr.model = <<"override">>
        /\ (req.debug_model # "override" /\ SuffixedSupported) =>
              /\ tr.model = normalize_model_name(<<req.model[1]>>, req.debug_model)
              /\ tr.model = <<Mapping[req.model[1]]>>
        /\ (req.debug_model # "override" /\ Len(BeforeColon(req.model)) = 1
            /\ req.model[1] \notin DOMAIN Mapping) => tr.model = <<req.model[1]>>

\* "gpt5.2-codex_xhigh" was normalized to "gpt-5.2-codex"
C31_Witness ==
    /\ pc = "normalized"
    /\ req.model = <<"gpt5.2-codex", "_xhigh">>
    /\ req.debug_model = None
    /\ tr.model = <<"gpt-5.2-codex">>

\* C32: two requests with the same final instructions and the same input
\* and without a session id of the client send the same session identifier
\* upstream, in the session_id header and as prompt_cache_key; a request of
\* a client that supplies a session id sends this value instead.
C32_SessionId ==
    /\ \A i \in 1..Len(calls) :
          /\ calls[i].prompt_cache_key = calls[i].session_id
          /\ log[i].header # None => calls[i].session_id = log[i].header
    /\ \A i, j \in 1..Len(calls) :
          (/\ log[i].header = None /\ log[j].header = None
           /\ log[i].instructions = log[j].instructions
           /\ log[i].input = log[j].input) => calls[i].session_id = calls[j].session_id

\* the aggregated response of a request with a strict text format has the
\* answer text alone as its text and no reasoning key
C33_AggregateSuppressed ==
    (req.endpoint = "responses" /\ req.strict_json_text /\ outcome.kind = "doc") =>
        /\ outcome.content.text = tr.full_text
        /\ outcome.content.reasoning_summary = <<>>
        /\ outcome.content.reasoning = <<>>

\* C33: when the client asked for a strict structured-output text format on
\* the responses endpoint, the client output holds no reasoning text in any
\* reasoning mode: the aggregated response has no <think> block and no
\* reasoning key, and no reasoning delta is among the lines streamed.
C33_StrictNoReasoning ==
    (req.endpoint = "responses" /\ req.strict_json_text) =>
        /\ C33_AggregateSuppressed
        /\ \A i \in 1..Len(frames) :
              frames[i].t \notin {"response.reasoning_summary_text.delta",
                                  "response.reasoning_text.delta"}

\* the frames of the step
NewFrames == SubSeq(frames', Len(frames) + 1, Len(frames'))

Separator == Frame("content", "\n")

\* a boundary event that is not the first one has been read, and no summary
\* delta since
BoundaryPending ==
    \E j \in 1..Len(log) :
        /\ log[j].type = "response.reasoning_summary_part.added"
        /\ \E k \in 1..(j - 1) : log[k].type = "response.reasoning_summary_part.added"
        /\ \A n \in (j + 1)..Len(log) : log[n].type # "response.reasoning_summary_text.delta"

\* C34: in think-tags mode a summary delta that is sent after a boundary
\* event other than the first is preceded by exactly one separator frame,
\* however many boundary events came since the last summary delta; no other
\* event, and no summary delta of the first part, yields a separator.
C34_OneSeparator ==
    [][(req.reasoning_compat = "think-tags" /\ log' # log) =>
          IF /\ log'[Len(log')].type = "response.reasoning_summary_text.delta"
             /\ BoundaryPending
             /\ NewFrames # <<>>
          THEN /\ Cardinality({i \in 1..Len(NewFrames) : NewFrames[i] = Separator}) = 1
               /\ NewFrames[Len(NewFrames)] = Frame("content", log'[Len(log')].d)
               /\ NewFrames[Len(NewFrames) - 1] = Separator
          ELSE \A i \in 1..Len(NewFrames) : NewFrames[i] # Separator]_vars

\* two summary parts, each after its boundary event: one separator between
C34_Witness ==
    /\ req.reasoning_compat = "think-tags"
    /\ Len(log) = 4
    /\ log[1].type = "response.reasoning_summary_part.added"
    /\ log[3].type = "response.reasoning_summary_part.added"
    /\ frames = <<ThinkOpen, Frame("content", "a"), Separator, Frame("content", "b")>>

\* the step reads an event whose type neither loop has a branch for
ReadsUnrecognised ==
    log' # log /\ log'[Len(log')].type = "response.in_progress"

MarkerPositions(marker) == {i \in 1..Len(frames) : frames[i] = marker}

\* C36: in think-tags stream mode at most one <think> frame and at most one
\* </think> frame are sent, </think> never before <think>, and a reasoning
\* delta read after </think> was sent yields no frame: a block that was
\* closed is not opened again.
C36_NeverReopened ==
    /\ [](req.reasoning_compat = "think-tags" =>
            /\ Cardinality(MarkerPositions(ThinkOpen)) <= 1
            /\ Cardinality(MarkerPositions(ThinkClose)) <= 1
            /\ \A i \in MarkerPositions(ThinkClose) :
                  \E j \in MarkerPositions(ThinkOpen) : j < i)
    /\ [][(/\ req.reasoning_compat = "think-tags"
           /\ log' # log
           /\ IsReasoningDelta(log'[Len(log')])
           /\ MarkerPositions(ThinkClose) # {}) => frames' = frames]_vars

\* reasoning, answer text, reasoning again: the second reasoning delta is
\* not sent
C36_Witness ==
    /\ req.reasoning_compat = "think-tags"
    /\ Len(log) = 3
    /\ IsReasoningDelta(log[1]) /\ log[2].type = "response.output_text.delta"
    /\ IsReasoningDelta(log[3])
    /\ frames = <<ThinkOpen, Frame("content", log[1].d), ThinkClose,
                  Frame("content", log[2].d)>>

\* C37: for every upstream event sequence the stream of a chat completion
\* holds at most one frame with finish_reason "stop".
C37_OneStopFrame ==
    Cardinality({i \in 1..Len(frames) : frames[i] = StopFrame}) <= 1

\* C38: the retry after a rejection of the tools differs from the first
\* attempt in its tools and tool_choice only: the instructions and the
\* credentials are those of the first attempt.
C38_RetrySameButTools ==
    Len(calls) = 2 =>
        /\ calls[2].instructions = calls[1].instructions
        /\ calls[2].access_token = calls[1].access_token
        /\ calls[2].account_id = calls[1].account_id
        /\ calls[2].store = calls[1].store
        /\ calls[2].stream = calls[1].stream

\* C40: when the refresh succeeds and the write of auth.json fails, the call
\* returns the access token of the refresh response, and the account id of
\* its id token when it names one; nothing is written.
C40_WriteFailureKeepsRefreshed ==
    \A p \in Fetchers :
        RefreshedTokens(p) /\ ~fetch[p].wrote =>
            /\ fetch[p].result.access_token = fetch[p].outcome.access_token
            /\ derive_account_id(fetch[p].outcome.id_token) # None =>
                  fetch[p].result.account_id = derive_account_id(fetch[p].outcome.id_token)
            /\ fetch[p].written = NoFile
            /\ lastWriter # p

\* a stale record with another account id is refreshed, the write fails, and
\* the call returns the token and the account id of the refresh while the
\* file still holds the stale record
C40_Witness ==
    /\ RefreshedTokens(1)
    /\ ~fetch[1].wrote
    /\ fetch[1].auth.access_token = "at_stale"
    /\ fetch[1].auth.account_id = "acct0"
    /\ fetch[1].result.access_token = "at1"
    /\ fetch[1].result.account_id = "acct1"
    /\ authFile.access_token = "at_stale"

\* C39: once a refresh has written the credential record, a read of the
\* store returns that record, the one of the last write, whichever candidate
\* directory the record before it had been read from.
C39_ReadReturnsWritten ==
    lastWriter # 0 =>
        /\ read_auth_file(environ, authFile) = fetch[lastWriter].written
        /\ read_dir(environ, authFile) = get_home_dir(environ)

\* the record was read from ~/.codex, the refresh wrote its record to the
\* default home directory, and the next fetch read the record written
C39_Witness ==
    /\ lastWriter = 1
    /\ fetch[1].dir = "~/.codex"
    /\ get_home_dir(environ) = "~/.config/gptmock"
    /\ authFile["~/.codex"] = LoginRecord
    /\ fetch[2].pc = "done"
    /\ fetch[2].dir = "~/.config/gptmock"
    /\ fetch[2].auth = fetch[1].written

====
